---- MODULE Spec2Model ----
(***************************************************************************)
(* State machine of the virtual try-on studio (src/App.tsx and             *)
(* src/components/StartScreen.tsx): the outfit history with its cursor,    *)
(* the per-layer pose cache, the saved-outfit catalog, the connectivity    *)
(* flag, the loading flag and the Gateway calls in flight.                 *)
(*                                                                         *)
(* Layers are JavaScript objects: the history and the saved outfits hold   *)
(* references to them, and handlePoseSelect / handleBackgroundChange       *)
(* assign into a layer's poseImages in place.  The model therefore keeps   *)
(* a heap of layer objects and sequences of object ids.                    *)
(*                                                                         *)
(* An async handler is two steps: the part before its await (it captures   *)
(* the state of the render it was created in and issues the call) and the  *)
(* part after it (it runs with the captured values, while the functional   *)
(* updaters prev => ... see the live state).                               *)
(***************************************************************************)
EXTENDS Integers, Sequences, FiniteSets, TLC

\* ---------------------------------------------------------------- bounds
\* Pose descriptors modelled: the first NumPoses entries of POSE_INSTRUCTIONS.
NumPoses == 2
\* Layer objects alive at once.
MaxObj == 5
\* Readings of the clock (Date.now()) are 0..MaxClock.
MaxClock == 1
\* Specification Spec (the whole program): layers in the history (base layer
\* included), saved outfits in the catalog, Gateway calls of App pending at
\* once, garment ids 1..MaxGarment, image references 1..MaxImg.
MaxHistory == 2
MaxSaved == 1
MaxPending == 1
MaxGarment == 1
MaxImg == 1
\* Spec: calls of App and reads and calls of start screens in flight at once
\* while the main view is shown.
MaxFlight == 1
\* File reads and model calls of start screens in flight at once, in Spec,
\* SpecPersist, SpecLayers, SpecStore and SpecLive.
MaxReads == 1
\* Spec: the clock reads 0..MaxNow.
MaxNow == 0
MaxLagFlight == 0   \* Spec, SpecSave: calls and reads in flight in the main view while the store differs from the catalog
PersistReads == 1
LayerReads == 1
StoreReads == 2
LiveReads == 2
\* Specifications SpecSeq and SpecRace (one editing session): layers in the
\* history, garment ids, image references.
EditHistory == 3
EditGarment == 2
EditImg == 2
\* Specification SpecSave (one session and its catalog): layers in the
\* history, image references.
SaveHistory == 3
SaveImg == 2
\* Specification SpecClock (one session, its catalog and the clock): layers
\* in the history, saved outfits in the catalog, image references.
ClockHistory == 3
ClockSaved == 2
ClockImg == 2
\* Specification SpecPose (one session and its poses): layers in the
\* history, image references, pose descriptors.
PoseHistory == 2
PoseImg == 2
PosePoses == 3
\* Specification SpecShow (one session and the image it shows): layers in
\* the history, saved outfits, image references, pose descriptors.
ShowHistory == 2
ShowSaved == 1
ShowImg == 2
ShowPoses == 3
\* Specification SpecRedo (one session with its connectivity): layers in the
\* history, garment ids.
RedoHistory == 3
RedoGarment == 2
\* Specification SpecBoot (startup): layers in a stored history, garment ids
\* in a stored layer.
BootHistory == 2
BootGarment == 1
\* Specification SpecPersist (startup and the session after it): layers in
\* the history, garment ids.
PersistHistory == 2
PersistGarment == 2
\* Specification SpecLayers (sessions and their layers): layers in the
\* history, calls in flight, image references.
LayerHistory == 2
LayerPending == 2
LayerImg == 2
\* Specification SpecStore (startup and the session after it, with both
\* stores): layers in the history, outfits in the catalog.
StoreHistory == 2
StoreSaved == 1
\* Specification SpecLive (calls that settle): layers in the history, calls in
\* flight.
LiveHistory == 2
LivePending == 2

\* Specification SpecApi (the Gateway's answers): candidates in an answer,
\* parts in a candidate, image payloads.
ApiCandidates == 2
ApiParts == 2
ApiData == 2

\* null / undefined, for image references, garments and absent objects.
Null == 0

Poses == 0..(NumPoses - 1)
ObjIds == 1..MaxObj

\* The wardrobe the session starts with (ids of its garments).
defaultWardrobe == <<1>>

\* ------------------------------------------------------- error messages
NoError == "null"
OfflineStartMsg == "You are offline. Please connect to the internet to start a new session."
OfflineGarmentMsg == "You are offline. Connect to the internet to add new items."
OfflinePoseMsg == "You are offline. Connect to the internet to generate new poses."
OfflineBackgroundMsg == "You are offline. Connect to the internet to change backgrounds."
OfflineEnhanceMsg == "You are offline. Connect to the internet to enhance and save images."
MismatchMsg == "This outfit was created for a different base model and cannot be loaded."
FailedGarmentMsg == "Failed to apply garment"
FailedPoseMsg == "Failed to change pose"
FailedBackgroundMsg == "Failed to change background"
FailedEnhanceMsg == "Failed to enhance image"
OfflineMsgs == {OfflineGarmentMsg, OfflinePoseMsg, OfflineBackgroundMsg, OfflineEnhanceMsg}

VARIABLES
  modelImageUrl,        \* Null or an image reference
  outfitHistory,        \* sequence of layer object ids
  heap,                 \* object id -> layer object, or NoLayer
  currentOutfitIndex,   \* 0-based cursor into outfitHistory
  currentPoseIndex,     \* 0-based index into POSE_INSTRUCTIONS
  isLoading,
  error,
  isOnline,
  wardrobe,             \* sequence of garment ids
  savedOutfits,         \* sequence of SavedOutfit records
  pending,              \* Gateway calls issued by App and not yet settled
  userImageUrl,         \* StartScreen: the photo read (1), or Null: the uploader is shown
  isGenerating,         \* StartScreen: a model is being generated
  selectedGender,       \* StartScreen: the gender chosen (1), or Null
  ssPending,            \* file reads and generateModelImage calls started by a
                        \* StartScreen and not yet ended; live: by the one mounted now
  ssError,              \* StartScreen's own error slot
  generatedModelUrl,    \* StartScreen: the generated model, or Null
  crashed,              \* an exception escaped into React's render: the tree is unmounted
  now,                  \* the clock Date.now() reads
  session,              \* the durable store: <<the record under 'vto-session'>>, or <<>>
  isSessionLoaded,      \* the startup read of the durable store has finished
  sessionRead,          \* the dbGet of loadSession while it is pending: <<what the
                        \* store held when it was called>>; <<>> once it has answered
  last,                 \* history variable: the handler step taken last
  savedStore,           \* localStorage under 'savedOutfits': absent, unparsable, or a list
  response,             \* the Gateway's answer handed to handleApiResponse
  apiResult             \* what handleApiResponse made of it, or NotCalled

vars == <<modelImageUrl, outfitHistory, heap, currentOutfitIndex, currentPoseIndex,
          isLoading, error, isOnline, wardrobe, savedOutfits, pending,
          userImageUrl, isGenerating, selectedGender, ssPending,
          ssError, generatedModelUrl, crashed, now,
          session, isSessionLoaded, sessionRead, last, savedStore, response, apiResult>>

appVars == <<modelImageUrl, outfitHistory, heap, currentOutfitIndex, currentPoseIndex,
             isLoading, error, wardrobe, savedOutfits, pending>>
ssVars == <<userImageUrl, isGenerating, selectedGender, ssPending,
            ssError, generatedModelUrl>>
bootVars == <<session, isSessionLoaded, sessionRead>>
apiVars == <<response, apiResult>>

\* ------------------------------------------------------------ pose cache
NoLayer == [garment |-> Null, poseImages |-> <<>>]

\* poseImages is a JavaScript object with string keys: a sequence of
\* <<pose, image>> pairs in insertion order, one pair per key.
HasPose(pi, p) == \E i \in 1..Len(pi) : pi[i][1] = p

\* pi[p], undefined (Null) when the key is absent
GetPose(pi, p) ==
  IF HasPose(pi, p) THEN pi[CHOOSE i \in 1..Len(pi) : pi[i][1] = p][2] ELSE Null

\* pi[p] = v: an existing key keeps its place, a new key goes last
PutPose(pi, p, v) ==
  IF HasPose(pi, p)
    THEN [i \in 1..Len(pi) |-> IF pi[i][1] = p THEN <<p, v>> ELSE pi[i]]
    ELSE Append(pi, <<p, v>>)

\* Object.values(pi)[0]
FirstValue(pi) == IF Len(pi) = 0 THEN Null ELSE pi[1][2]

\* Object.keys(pi)
PoseKeys(pi) == {pi[i][1] : i \in 1..Len(pi)}

\* a layer's content, by value
Content(h, ids) == [i \in 1..Len(ids) |-> h[ids[i]]]

\* ------------------------------------------------------------- the heap
Referenced(hist, saved) ==
  {hist[i] : i \in 1..Len(hist)} \cup
  UNION {{saved[k].layers[i] : i \in 1..Len(saved[k].layers)} : k \in 1..Len(saved)}

\* objects no reference reaches are gone
Collect(h, hist, saved) ==
  [o \in ObjIds |-> IF o \in Referenced(hist, saved) THEN h[o] ELSE NoLayer]

\* a new object takes the least id that the references kept do not use
FreeIds(hist, saved) == ObjIds \ Referenced(hist, saved)
CanAlloc(hist, saved) == FreeIds(hist, saved) # {}
NewId(hist, saved) ==
  CHOOSE o \in FreeIds(hist, saved) : \A q \in FreeIds(hist, saved) : o <= q

\* the n-th least id that is not in use
NthFree(used, n) ==
  CHOOSE o \in ObjIds \ used : Cardinality({q \in ObjIds \ used : q < o}) = n - 1

\* ------------------------------------------------------- derived values
\* outfitHistory.slice(0, n)
Slice(s, n) == SubSeq(s, 1, IF n < Len(s) THEN n ELSE Len(s))

activeOutfitLayers == Slice(outfitHistory, currentOutfitIndex + 1)

\* a history in which no index finds a layer
LayerAtNone(hist, i) == Null

\* outfitHistory[i] with a 0-based index, undefined (Null) out of range
LayerAt(hist, i) == IF i >= 0 /\ i < Len(hist) THEN hist[i + 1] ELSE Null

\* an image shown that falls back on the entry the layer got last
displayLastInserted ==
  IF Len(outfitHistory) = 0 THEN modelImageUrl
  ELSE LET currentLayer == LayerAt(outfitHistory, currentOutfitIndex) IN
       IF currentLayer = Null THEN modelImageUrl
       ELSE IF HasPose(heap[currentLayer].poseImages, currentPoseIndex)
              THEN GetPose(heap[currentLayer].poseImages, currentPoseIndex)
              ELSE LET pi == heap[currentLayer].poseImages IN
                   IF Len(pi) = 0 THEN Null ELSE pi[Len(pi)][2]

displayImageUrl ==
  IF Len(outfitHistory) = 0 THEN modelImageUrl
  ELSE LET currentLayer == LayerAt(outfitHistory, currentOutfitIndex) IN
       IF currentLayer = Null THEN modelImageUrl
       ELSE IF HasPose(heap[currentLayer].poseImages, currentPoseIndex)
              THEN GetPose(heap[currentLayer].poseImages, currentPoseIndex)
              ELSE FirstValue(heap[currentLayer].poseImages)

\* a gate that never closes
OfflineNever == FALSE

\* if (!isOnline), the check every handler makes before it reaches the Gateway
Offline == ~isOnline

\* the main view (and with it every handler below handleModelFinalized) is
\* rendered only while a model exists and the tree is mounted
MainView == modelImageUrl # Null /\ ~crashed
StartView == modelImageUrl = Null /\ ~crashed

\* no snapshot
NoSnap == [layers |-> <<>>, beyond |-> 0]

\* a value of the history variable: the step taken, its argument, a snapshot
Did(op, arg, snap) == [op |-> op, arg |-> arg, snap |-> snap]

\* a 1-based element of a sequence removed
RemoveAt(s, i) == SubSeq(s, 1, i - 1) \o SubSeq(s, i + 1, Len(s))

\* a Gateway call in flight: the values its handler captured when it was issued
Call(kind, idx, pose, arg) == [kind |-> kind, idx |-> idx, pose |-> pose, arg |-> arg]

\* --------------------------------------------------- saved-outfits store
\* what localStorage holds under 'savedOutfits': nothing, a string that
\* JSON.parse rejects, or the JSON text of a list (kept here as the list of
\* outfits by value: the text holds copies, no object is shared with it)
AbsentStore == [kind |-> "absent", list |-> <<>>]
CorruptStore == [kind |-> "corrupt", list |-> <<>>]
StoreOf(list) == [kind |-> "list", list |-> list]

\* JSON.stringify(savedOutfits): every outfit with its layers by value
Stringify(saved, h) ==
  [k \in 1..Len(saved) |->
     [id |-> saved[k].id, previewImageUrl |-> saved[k].previewImageUrl,
      layers |-> Content(h, saved[k].layers), createdAt |-> saved[k].createdAt]]

\* layers before the k-th outfit of a list
RECURSIVE LayersBefore(_, _)
LayersBefore(list, k) ==
  IF k <= 1 THEN 0 ELSE LayersBefore(list, k - 1) + Len(list[k - 1].layers)

\* JSON.parse(storedOutfits): new objects, one per layer of each outfit
Parsed(list, used) ==
  [k \in 1..Len(list) |->
     [id |-> list[k].id, previewImageUrl |-> list[k].previewImageUrl,
      layers |-> [i \in 1..Len(list[k].layers) |->
                    NthFree(used, LayersBefore(list, k) + i)],
      createdAt |-> list[k].createdAt]]

ParsedHeap(list, used, h) ==
  [o \in ObjIds |->
     IF \E k \in 1..Len(list) : \E i \in 1..Len(list[k].layers) :
          Parsed(list, used)[k].layers[i] = o
       THEN LET k == CHOOSE k \in 1..Len(list) : \E i \in 1..Len(list[k].layers) :
                       Parsed(list, used)[k].layers[i] = o
                i == CHOOSE i \in 1..Len(list[k].layers) : Parsed(list, used)[k].layers[i] = o
            IN list[k].layers[i]
       ELSE h[o]]

\* localStorage.setItem inside the persist effect's try/catch: a write the
\* store refuses (the quota is exceeded) throws, the catch logs it, and the
\* store keeps what it held
setItem(text, accepted) == IF accepted THEN StoreOf(text) ELSE savedStore

\* the load at mount without its try/catch: a parse error is not caught
mountWithoutCatch(accepted) ==
  /\ IF savedStore.kind = "list"
       THEN /\ LayersBefore(savedStore.list, Len(savedStore.list) + 1)
                 <= Cardinality(FreeIds(outfitHistory, savedOutfits))
            /\ savedOutfits' = Parsed(savedStore.list, Referenced(outfitHistory, savedOutfits))
            /\ heap' = ParsedHeap(savedStore.list, Referenced(outfitHistory, savedOutfits), heap)
       ELSE /\ UNCHANGED <<savedOutfits, heap>>
  /\ crashed' = (savedStore.kind = "corrupt")
  /\ savedStore' = setItem(<<>>, accepted)
  /\ UNCHANGED <<modelImageUrl, outfitHistory, currentOutfitIndex, currentPoseIndex,
                 isLoading, error, wardrobe, pending, ssVars, isOnline, now>>

\* the two mount effects of the catalog in the first commit: the load reads
\* the store and hands the parsed list to setSavedOutfits (nothing stored
\* and a parse error leave the catalog alone); the persist effect then
\* writes the catalog of the first render, which is empty
mountSavedOutfits(accepted) ==
  /\ IF savedStore.kind = "list"
       THEN /\ LayersBefore(savedStore.list, Len(savedStore.list) + 1)
                 <= Cardinality(FreeIds(outfitHistory, savedOutfits))
            /\ savedOutfits' = Parsed(savedStore.list, Referenced(outfitHistory, savedOutfits))
            /\ heap' = ParsedHeap(savedStore.list, Referenced(outfitHistory, savedOutfits), heap)
       ELSE            /\ UNCHANGED <<savedOutfits, heap>>
  /\ savedStore' = setItem(<<>>, accepted)
  /\ UNCHANGED <<modelImageUrl, outfitHistory, currentOutfitIndex, currentPoseIndex,
                 isLoading, error, wardrobe, pending, ssVars, isOnline, crashed, now>>

\* savedOutfits is the array of the render before: the persist effect of
\* the catalog does not run
persistNothing ==
  /\ UNCHANGED savedStore
  /\ UNCHANGED <<appVars, ssVars, isOnline, crashed, now>>

\* the persist effect of the catalog: it runs after a render in which
\* savedOutfits is a new array
persistSavedOutfits(accepted) ==
  /\ savedStore' = setItem(Stringify(savedOutfits, heap), accepted)
  /\ UNCHANGED <<appVars, ssVars, isOnline, crashed, now>>

\* ------------------------------------------------------ Gateway answers
\* a field that is undefined
Undefined == "undefined"

\* a GenerateContentResponse: the prompt feedback, the candidates with their
\* parts (inlineData is Null or the payload of an image) and finish reason,
\* and the text of the answer
NoResponse ==
  [blockReason |-> Undefined, blockReasonMessage |-> Undefined,
   candidates |-> <<>>, text |-> Undefined]

\* handleApiResponse has not run
NotCalled == [threw |-> FALSE, value |-> <<>>]

\* candidate.content?.parts?.find(part => part.inlineData), as a place or 0
FindImagePart(parts) ==
  IF \E p \in 1..Len(parts) : parts[p].inlineData # Null
    THEN CHOOSE p \in 1..Len(parts) :
           /\ parts[p].inlineData # Null
           /\ \A q \in 1..(p - 1) : parts[q].inlineData = Null
    ELSE 0

\* the first candidate in which find() finds a part, or 0
FirstImageCandidate(candidates) ==
  IF \E c \in 1..Len(candidates) : FindImagePart(candidates[c].parts) # 0
    THEN CHOOSE c \in 1..Len(candidates) :
           /\ FindImagePart(candidates[c].parts) # 0
           /\ \A d \in 1..(c - 1) : FindImagePart(candidates[d].parts) = 0
    ELSE 0

\* response.text?.trim()
Trim(t) == IF t = "  " THEN "" ELSE t

\* throw new Error(message): the message as the pieces of its template
Throw(message) == [threw |-> TRUE, value |-> message]

\* the loop over the candidates and what follows it
ImageOrNoImage(r) ==
  LET c == FirstImageCandidate(r.candidates) IN
  IF c # 0
    THEN [threw |-> FALSE,
          value |-> <<"data:", "image/png", ";base64,",
                      r.candidates[c].parts[FindImagePart(r.candidates[c].parts)].inlineData>>]
  ELSE LET finishReason == IF Len(r.candidates) = 0 THEN Undefined
                           ELSE r.candidates[1].finishReason
           textFeedback == IF r.text = Undefined THEN Undefined ELSE Trim(r.text)
       IN IF finishReason # Undefined /\ finishReason # "STOP"
            THEN Throw(<<"Image generation stopped unexpectedly. Reason: ", finishReason,
                         ". This often relates to safety settings.">>)
            ELSE Throw(<<"The AI model did not return an image. ",
                         IF textFeedback # Undefined /\ textFeedback # ""
                           THEN "The model responded with text: "
                           ELSE "This can happen due to safety filters or if the request is too complex. Please try a different image.",
                         IF textFeedback # Undefined /\ textFeedback # ""
                           THEN textFeedback ELSE "">>)

\* an answer handled by looking for an image before the block reason
handleApiResponseImageFirst(r) ==
  IF FirstImageCandidate(r.candidates) # 0
    THEN ImageOrNoImage(r)
    ELSE IF r.blockReason # Undefined
      THEN Throw(<<"Request was blocked. Reason: ", r.blockReason, ". ",
                   IF r.blockReasonMessage = Undefined THEN "" ELSE r.blockReasonMessage>>)
      ELSE ImageOrNoImage(r)

handleApiResponse(r) ==
  IF r.blockReason # Undefined
    THEN Throw(<<"Request was blocked. Reason: ", r.blockReason, ". ",
                 IF r.blockReasonMessage = Undefined THEN "" ELSE r.blockReasonMessage>>)
    ELSE ImageOrNoImage(r)

\* a Gateway function hands the answer it received to handleApiResponse
callHandleApiResponse ==
  /\ apiResult = NotCalled
  /\ apiResult' = handleApiResponse(response)
  /\ UNCHANGED response

\* --------------------------------------------------------------- Init
\* the state once the mount effects have run and the startup read has found
\* no session record: nothing was stored, and the store holds the empty list
\* the persist effect wrote at mount, or nothing if that write was refused
Init ==
  /\ modelImageUrl = Null
  /\ outfitHistory = <<>>
  /\ heap = [o \in ObjIds |-> NoLayer]
  /\ currentOutfitIndex = 0
  /\ currentPoseIndex = 0
  /\ isLoading = FALSE
  /\ error = NoError
  /\ isOnline \in BOOLEAN
  /\ wardrobe = defaultWardrobe
  /\ savedOutfits = <<>>
  /\ pending = <<>>
  /\ userImageUrl = Null
  /\ isGenerating = FALSE
  /\ selectedGender = Null
  /\ ssPending = <<>>
  /\ ssError = NoError
  /\ generatedModelUrl = Null
  /\ crashed = FALSE
  /\ now = 0
  /\ session = <<>>
  /\ isSessionLoaded = TRUE
  /\ sessionRead = <<>>
  /\ last = Did("init", 0, NoSnap)
  /\ savedStore \in {StoreOf(<<>>), AbsentStore}
  /\ response = NoResponse
  /\ apiResult = NotCalled

\* ------------------------------------------------- connectivity, clock
handleOnline ==
  /\ ~crashed /\ ~isOnline
  /\ isOnline' = TRUE
  /\ UNCHANGED <<appVars, ssVars, crashed, now>>
  /\ UNCHANGED savedStore

handleOffline ==
  /\ ~crashed /\ isOnline
  /\ isOnline' = FALSE
  /\ UNCHANGED <<appVars, ssVars, crashed, now>>
  /\ UNCHANGED savedStore

Tick ==
  /\ now < MaxClock
  /\ now' = now + 1
  /\ UNCHANGED <<appVars, ssVars, isOnline, crashed>>
  /\ UNCHANGED savedStore

\* --------------------------------------------------------- StartScreen
\* ssPending holds the file reads started by handleFileSelect and the
\* generateModelImage calls their onload makes; an entry is live while the
\* StartScreen that started it is mounted
ModelCalls == {i \in 1..Len(ssPending) : ssPending[i].kind = "model"}

\* the state of a StartScreen that has just been mounted
FreshStartScreen ==
  /\ userImageUrl' = Null
  /\ isGenerating' = FALSE
  /\ selectedGender' = Null
  /\ ssError' = NoError
  /\ generatedModelUrl' = Null

\* App shows the main view: the StartScreen is unmounted and its state is
\* dropped; its reads and calls go on, and their setState calls do nothing
unmountStartScreen ==
  /\ FreshStartScreen
  /\ ssPending' = [i \in 1..Len(ssPending) |-> [ssPending[i] EXCEPT !.live = FALSE]]

\* the buttons "Use Different Photo" and "Proceed to Styling" are shown
ModelReady ==
  /\ userImageUrl # Null
  /\ generatedModelUrl # Null /\ ~isGenerating /\ ssError = NoError

\* a gender button of the uploader view
setSelectedGender ==
  /\ StartView /\ userImageUrl = Null
  /\ selectedGender' = 1
  /\ UNCHANGED <<userImageUrl, isGenerating, ssPending, ssError, generatedModelUrl>>
  /\ UNCHANGED <<appVars, isOnline, crashed, now>>
  /\ UNCHANGED savedStore

\* handleFileSelect up to reader.readAsDataURL(file)
handleFileSelect(isImage) ==
  /\ StartView
  /\ IF Offline
       THEN /\ ssError' = "You are offline. Please connect to the internet to generate a model."
            /\ UNCHANGED ssPending
     ELSE IF ~isImage
       THEN /\ ssError' = "Please select an image file."
            /\ UNCHANGED ssPending
     ELSE IF selectedGender = Null
       THEN /\ ssError' = "Please select a gender for the model first."
            /\ UNCHANGED ssPending
       ELSE /\ ssPending' = Append(ssPending, [kind |-> "read", live |-> TRUE])
            /\ UNCHANGED ssError
  /\ UNCHANGED <<userImageUrl, isGenerating, selectedGender, generatedModelUrl>>
  /\ UNCHANGED <<appVars, isOnline, crashed, now>>
  /\ UNCHANGED savedStore

\* reader.onload up to the await: generateModelImage is called, by a start
\* screen that is no longer mounted too
readerOnload(i) ==
  /\ i \in 1..Len(ssPending) /\ ssPending[i].kind = "read"
  /\ IF ssPending[i].live /\ ~crashed
       THEN /\ userImageUrl' = 1
            /\ isGenerating' = TRUE
            /\ generatedModelUrl' = Null
            /\ ssError' = NoError
       ELSE /\ UNCHANGED <<userImageUrl, isGenerating, generatedModelUrl, ssError>>
  /\ ssPending' = [ssPending EXCEPT ![i].kind = "model"]
  /\ UNCHANGED <<selectedGender, appVars, isOnline, crashed, now>>
  /\ UNCHANGED savedStore

\* reader.onload after the await
generateModelDone(i, ok, img) ==
  /\ i \in 1..Len(ssPending) /\ ssPending[i].kind = "model"
  /\ IF ~ssPending[i].live \/ crashed
       THEN /\ UNCHANGED <<userImageUrl, isGenerating, generatedModelUrl, ssError>>
     ELSE IF ok
       THEN /\ generatedModelUrl' = img
            /\ isGenerating' = FALSE
            /\ UNCHANGED <<userImageUrl, ssError>>
       ELSE /\ ssError' = "Failed to create model"
            /\ userImageUrl' = Null
            /\ isGenerating' = FALSE
            /\ UNCHANGED generatedModelUrl
  /\ ssPending' = RemoveAt(ssPending, i)
  /\ UNCHANGED <<selectedGender, appVars, isOnline, crashed, now>>
  /\ UNCHANGED savedStore

\* reset, from "Use Different Photo" or from "Try Again", which the compare
\* view shows with an error
reset ==
  /\ StartView
  /\ ModelReady \/ (userImageUrl # Null /\ ssError # NoError)
  /\ FreshStartScreen
  /\ UNCHANGED <<ssPending, appVars, isOnline, crashed, now>>
  /\ UNCHANGED savedStore

\* ------------------------------------------------------------------ App
handleModelFinalized ==
  /\ StartView /\ ModelReady
  /\ IF Offline
       THEN /\ error' = OfflineStartMsg
            /\ UNCHANGED <<modelImageUrl, outfitHistory, heap, currentOutfitIndex, ssVars>>
       ELSE /\ CanAlloc(<<>>, savedOutfits)
            /\ LET o == NewId(<<>>, savedOutfits)
                    base == [garment |-> Null,
                             poseImages |-> <<<<0, generatedModelUrl>>>>]
               IN /\ modelImageUrl' = generatedModelUrl
                  /\ outfitHistory' = <<o>>
                  /\ heap' = Collect([heap EXCEPT ![o] = base], <<o>>, savedOutfits)
                  /\ currentOutfitIndex' = 0
            /\ unmountStartScreen
            /\ error' = error
  /\ UNCHANGED <<currentPoseIndex, isLoading, wardrobe, savedOutfits, pending,
                 isOnline, crashed, now>>
  /\ UNCHANGED savedStore

handleStartOver ==
  /\ MainView
  /\ modelImageUrl' = Null
  /\ outfitHistory' = <<>>
  /\ heap' = Collect(heap, <<>>, savedOutfits)
  /\ currentOutfitIndex' = 0
  /\ isLoading' = FALSE
  /\ error' = NoError
  /\ currentPoseIndex' = 0
  /\ wardrobe' = defaultWardrobe
  /\ UNCHANGED <<savedOutfits, pending, ssVars, isOnline, crashed, now>>
  /\ UNCHANGED savedStore

\* handleGarmentSelect up to its await
handleGarmentSelect(g) ==
  /\ MainView
  /\ LET nextLayer == LayerAt(outfitHistory, currentOutfitIndex + 1) IN
     IF displayImageUrl = Null \/ isLoading
       THEN            /\ UNCHANGED appVars
     ELSE IF nextLayer # Null /\ heap[nextLayer].garment = g
       THEN /\ currentOutfitIndex' = currentOutfitIndex + 1
            /\ currentPoseIndex' = 0
            /\ UNCHANGED <<modelImageUrl, outfitHistory, heap, isLoading, error,
                           wardrobe, savedOutfits, pending>>
     ELSE IF Offline
       THEN /\ error' = OfflineGarmentMsg
            /\ UNCHANGED <<modelImageUrl, outfitHistory, heap, currentOutfitIndex,
                           currentPoseIndex, isLoading, wardrobe, savedOutfits, pending>>
       ELSE /\ error' = NoError
            /\ isLoading' = TRUE
            /\ pending' = Append(pending,
                            Call("garment", currentOutfitIndex, currentPoseIndex, g))
            /\ UNCHANGED <<modelImageUrl, outfitHistory, heap, currentOutfitIndex,
                           currentPoseIndex, wardrobe, savedOutfits>>
  /\ UNCHANGED <<ssVars, isOnline, crashed, now>>
  /\ UNCHANGED savedStore

\* a wardrobe that takes every garment applied
AddAlways(w, g) == Append(w, g)

\* wardrobe with the garment added unless an item has its id
AddToWardrobe(w, g) ==
  IF \E i \in 1..Len(w) : w[i] = g THEN w ELSE Append(w, g)

\* variants of the append: a cut one layer short; no cut at all
AppendLayerCutsShort(prevHistory, idx, o) == Append(Slice(prevHistory, idx), o)
AppendLayerKeepsRedo(prevHistory, idx, o) == Append(prevHistory, o)

\* setOutfitHistory's updater in handleGarmentSelect: the live history cut
\* after the captured cursor, then the new layer
AppendLayer(prevHistory, idx, o) == Append(Slice(prevHistory, idx + 1), o)

\* handleGarmentSelect after its await: generateVirtualTryOnImage settled
garmentDone(i, ok, img) ==
  /\ i \in 1..Len(pending) /\ pending[i].kind = "garment"
  /\ LET c == pending[i]
         kept == Slice(outfitHistory, c.idx + 1) IN
     IF crashed
       \* the tree is unmounted: the setters do nothing, the call is over
       THEN            /\ UNCHANGED <<outfitHistory, heap, currentOutfitIndex, wardrobe, error>>
     ELSE IF ok
       THEN /\ CanAlloc(kept, savedOutfits)
            /\ LET o == NewId(kept, savedOutfits)
                   newLayer == [garment |-> c.arg, poseImages |-> <<<<c.pose, img>>>>]
               IN /\ outfitHistory' = AppendLayer(outfitHistory, c.idx, o)
                  /\ heap' = Collect([heap EXCEPT ![o] = newLayer],
                                     AppendLayer(outfitHistory, c.idx, o), savedOutfits)
            /\ currentOutfitIndex' = currentOutfitIndex + 1
            /\ wardrobe' = AddToWardrobe(wardrobe, c.arg)
            /\ error' = error
       ELSE /\ error' = FailedGarmentMsg
            /\ UNCHANGED <<outfitHistory, heap, currentOutfitIndex, wardrobe>>
  /\ isLoading' = IF crashed THEN isLoading ELSE FALSE
  /\ pending' = RemoveAt(pending, i)
  /\ UNCHANGED <<modelImageUrl, currentPoseIndex, savedOutfits,
                 ssVars, isOnline, crashed, now>>
  /\ UNCHANGED savedStore

\* a remove that does not look at the cursor
removeUnguarded ==
  /\ MainView
  /\ currentOutfitIndex' = currentOutfitIndex - 1
  /\ currentPoseIndex' = 0
  /\ UNCHANGED <<modelImageUrl, outfitHistory, heap, isLoading, error, wardrobe,
                 savedOutfits, pending, ssVars, isOnline, crashed, now>>
  /\ UNCHANGED savedStore

handleRemoveLastGarment ==
  /\ MainView
  /\ IF currentOutfitIndex > 0
       THEN /\ currentOutfitIndex' = currentOutfitIndex - 1
            /\ currentPoseIndex' = 0
       ELSE            /\ UNCHANGED <<currentOutfitIndex, currentPoseIndex>>
  /\ UNCHANGED <<modelImageUrl, outfitHistory, heap, isLoading, error, wardrobe,
                 savedOutfits, pending, ssVars, isOnline, crashed, now>>
  /\ UNCHANGED savedStore

\* a pose select that looks at the connection before it looks at the cache
poseSelectGateFirst(newIndex) ==
  /\ MainView
  /\ LET currentLayer == LayerAt(outfitHistory, currentOutfitIndex) IN
     IF isLoading \/ Len(outfitHistory) = 0 \/ newIndex = currentPoseIndex
       THEN            /\ UNCHANGED appVars
     ELSE IF currentLayer = Null
       THEN            /\ UNCHANGED appVars
     ELSE IF Offline
       THEN /\ error' = OfflinePoseMsg
            /\ UNCHANGED <<modelImageUrl, outfitHistory, heap, currentOutfitIndex,
                           currentPoseIndex, isLoading, wardrobe, savedOutfits, pending>>
     ELSE IF HasPose(heap[currentLayer].poseImages, newIndex)
       THEN /\ currentPoseIndex' = newIndex
            /\ UNCHANGED <<modelImageUrl, outfitHistory, heap, currentOutfitIndex,
                           isLoading, error, wardrobe, savedOutfits, pending>>
     ELSE IF FirstValue(heap[currentLayer].poseImages) = Null
       THEN            /\ UNCHANGED appVars
       ELSE /\ error' = NoError
            /\ isLoading' = TRUE
            /\ currentPoseIndex' = newIndex
            /\ pending' = Append(pending,
                            Call("pose", currentOutfitIndex, currentPoseIndex, newIndex))
            /\ UNCHANGED <<modelImageUrl, outfitHistory, heap, currentOutfitIndex,
                           wardrobe, savedOutfits>>
  /\ UNCHANGED <<ssVars, isOnline, crashed, now>>
  /\ UNCHANGED savedStore

\* handlePoseSelect up to its await
handlePoseSelect(newIndex) ==
  /\ MainView
  /\ LET currentLayer == LayerAt(outfitHistory, currentOutfitIndex) IN
     IF isLoading \/ Len(outfitHistory) = 0 \/ newIndex = currentPoseIndex
       THEN            /\ UNCHANGED appVars
     ELSE IF currentLayer = Null
       \* currentLayer.poseImages of undefined: the handler's promise rejects
       THEN            /\ UNCHANGED appVars
     ELSE IF HasPose(heap[currentLayer].poseImages, newIndex)
       THEN /\ currentPoseIndex' = newIndex
            /\ UNCHANGED <<modelImageUrl, outfitHistory, heap, currentOutfitIndex,
                           isLoading, error, wardrobe, savedOutfits, pending>>
     ELSE IF Offline
       THEN /\ error' = OfflinePoseMsg
            /\ UNCHANGED <<modelImageUrl, outfitHistory, heap, currentOutfitIndex,
                           currentPoseIndex, isLoading, wardrobe, savedOutfits, pending>>
     ELSE IF FirstValue(heap[currentLayer].poseImages) = Null
       THEN            /\ UNCHANGED appVars
       ELSE /\ error' = NoError
            /\ isLoading' = TRUE
            /\ currentPoseIndex' = newIndex
            /\ pending' = Append(pending,
                            Call("pose", currentOutfitIndex, currentPoseIndex, newIndex))
            /\ UNCHANGED <<modelImageUrl, outfitHistory, heap, currentOutfitIndex,
                           wardrobe, savedOutfits>>
  /\ UNCHANGED <<ssVars, isOnline, crashed, now>>
  /\ UNCHANGED savedStore

\* the updater of handlePoseSelect and handleBackgroundChange: the layer at
\* the captured cursor of the live history is assigned into, in place
PutPoseImage(h, layer, pose, img) ==
  [h EXCEPT ![layer].poseImages = PutPose(@, pose, img)]

\* handlePoseSelect after its await: generatePoseVariation settled
poseDone(i, ok, img) ==
  /\ i \in 1..Len(pending) /\ pending[i].kind = "pose"
  /\ LET c == pending[i]
         updatedLayer == LayerAt(outfitHistory, c.idx) IN
     IF crashed
       \* the tree is unmounted: the setters do nothing, the call is over
       THEN            /\ UNCHANGED <<heap, error, currentPoseIndex, isLoading, crashed>>
     ELSE IF ok /\ updatedLayer = Null
       \* updatedLayer.poseImages of undefined, thrown by the updater while
       \* React renders: no error boundary, the tree is unmounted
       THEN /\ crashed' = TRUE
            /\ UNCHANGED <<heap, error, currentPoseIndex, isLoading>>
     ELSE IF ok
       THEN /\ heap' = PutPoseImage(heap, updatedLayer, c.arg, img)
            /\ isLoading' = FALSE
            /\ UNCHANGED <<error, currentPoseIndex, crashed>>
       ELSE /\ error' = FailedPoseMsg
            /\ currentPoseIndex' = c.pose
            /\ isLoading' = FALSE
            /\ UNCHANGED <<heap, crashed>>
  /\ pending' = RemoveAt(pending, i)
  /\ UNCHANGED <<modelImageUrl, outfitHistory, currentOutfitIndex, wardrobe,
                 savedOutfits, ssVars, isOnline, now>>
  /\ UNCHANGED savedStore

\* handleBackgroundChange up to its await
handleBackgroundChange ==
  /\ MainView
  /\ IF displayImageUrl = Null \/ isLoading
       THEN            /\ UNCHANGED appVars
     ELSE IF Offline
       THEN /\ error' = OfflineBackgroundMsg
            /\ UNCHANGED <<modelImageUrl, outfitHistory, heap, currentOutfitIndex,
                           currentPoseIndex, isLoading, wardrobe, savedOutfits, pending>>
       ELSE /\ error' = NoError
            /\ isLoading' = TRUE
            /\ pending' = Append(pending,
                            Call("background", currentOutfitIndex, currentPoseIndex, 0))
            /\ UNCHANGED <<modelImageUrl, outfitHistory, heap, currentOutfitIndex,
                           currentPoseIndex, wardrobe, savedOutfits>>
  /\ UNCHANGED <<ssVars, isOnline, crashed, now>>
  /\ UNCHANGED savedStore

\* handleBackgroundChange after its await: changeBackgroundImage settled
backgroundDone(i, ok, img) ==
  /\ i \in 1..Len(pending) /\ pending[i].kind = "background"
  /\ LET c == pending[i]
         updatedLayer == LayerAt(outfitHistory, c.idx) IN
     IF crashed
       THEN            /\ UNCHANGED <<heap, error, isLoading, crashed>>
     ELSE IF ok /\ updatedLayer = Null
       THEN /\ crashed' = TRUE
            /\ UNCHANGED <<heap, error, isLoading>>
     ELSE IF ok
       THEN /\ heap' = PutPoseImage(heap, updatedLayer, c.pose, img)
            /\ isLoading' = FALSE
            /\ UNCHANGED <<error, crashed>>
       ELSE /\ error' = FailedBackgroundMsg
            /\ isLoading' = FALSE
            /\ UNCHANGED <<heap, crashed>>
  /\ pending' = RemoveAt(pending, i)
  /\ UNCHANGED <<modelImageUrl, outfitHistory, currentOutfitIndex, currentPoseIndex,
                 wardrobe, savedOutfits, ssVars, isOnline, now>>
  /\ UNCHANGED savedStore

\* a record that keeps the whole history, the layers beyond the cursor too
WholeHistoryOutfit(later) ==
  [id |-> now, previewImageUrl |-> displayImageUrl,
   layers |-> outfitHistory, createdAt |-> later]

\* the record handleSaveOutfit builds: the id is formatted from a first
\* reading of the clock, createdAt is a second reading (the same or a later
\* one), and layers is the slice itself (the layer objects are shared)
NewSavedOutfit(later) ==
  [id |-> now, previewImageUrl |-> displayImageUrl,
   layers |-> activeOutfitLayers, createdAt |-> later]

\* a guard that lets every save through
SaveAlways == TRUE

\* handleSaveOutfit saves (it does not return at its first line)
SaveAccepted == displayImageUrl # Null /\ Len(activeOutfitLayers) > 1

\* a save that puts the new record after the others
saveAtEnd(accepted) ==
  /\ MainView
  /\ IF ~SaveAccepted
       THEN UNCHANGED <<savedOutfits, savedStore, now>>
       ELSE \E later \in now..MaxClock :
              /\ savedOutfits' = Append(savedOutfits, NewSavedOutfit(later))
              /\ now' = later
              /\ savedStore' = setItem(Stringify(savedOutfits', heap), accepted)
  /\ UNCHANGED <<modelImageUrl, outfitHistory, heap, currentOutfitIndex, currentPoseIndex,
                 isLoading, error, wardrobe, pending, ssVars, isOnline, crashed>>

\* handleSaveOutfit and, after a save, the persist effect of the catalog in
\* the render that follows; the clock is read twice and may advance between
\* the two readings
handleSaveOutfit(accepted) ==
  /\ MainView
  /\ IF ~SaveAccepted
       THEN UNCHANGED <<savedOutfits, savedStore, now>>
       ELSE \E later \in now..MaxClock :
              /\ savedOutfits' = <<NewSavedOutfit(later)>> \o savedOutfits
              /\ now' = later
              /\ savedStore' = setItem(Stringify(savedOutfits', heap), accepted)
  /\ UNCHANGED <<modelImageUrl, outfitHistory, heap, currentOutfitIndex, currentPoseIndex,
                 isLoading, error, wardrobe, pending, ssVars, isOnline, crashed>>

\* a comparison that the live model image always passes
baseModelAlwaysLive(h, outfit) == modelImageUrl

\* outfitToLoad.layers[0].poseImages[POSE_INSTRUCTIONS[0]]
baseModelFromOutfit(h, outfit) == GetPose(h[outfit.layers[1]].poseImages, 0)

handleLoadOutfit(k) ==
  /\ MainView
  /\ k \in 1..Len(savedOutfits)
  /\ LET outfitToLoad == savedOutfits[k] IN
     IF isLoading \/ modelImageUrl = Null
       THEN            /\ UNCHANGED <<outfitHistory, heap, currentOutfitIndex, currentPoseIndex, error>>
     ELSE IF modelImageUrl # baseModelFromOutfit(heap, outfitToLoad)
       THEN /\ error' = MismatchMsg
            /\ UNCHANGED <<outfitHistory, heap, currentOutfitIndex, currentPoseIndex>>
       ELSE /\ outfitHistory' = outfitToLoad.layers
            /\ heap' = Collect(heap, outfitToLoad.layers, savedOutfits)
            /\ currentOutfitIndex' = Len(outfitToLoad.layers) - 1
            /\ currentPoseIndex' = 0
            /\ error' = NoError
  /\ UNCHANGED <<modelImageUrl, isLoading, wardrobe, savedOutfits, pending,
                 ssVars, isOnline, crashed, now>>
  /\ UNCHANGED savedStore

\* a filter that stops at the first outfit it takes out
FilterFirst(saved, outfitId) ==
  IF \E k \in 1..Len(saved) : saved[k].id = outfitId
    THEN RemoveAt(saved, CHOOSE k \in 1..Len(saved) :
                           /\ saved[k].id = outfitId
                           /\ \A j \in 1..(k - 1) : saved[j].id # outfitId)
    ELSE saved

\* prev.filter(outfit => outfit.id !== outfitId)
FilterOut(saved, outfitId) == SelectSeq(saved, LAMBDA outfit : outfit.id # outfitId)

\* handleDeleteOutfit and the persist effect of the catalog in the render
\* that follows: filter returns a new array whether or not an outfit went
handleDeleteOutfit(outfitId, accepted) ==
  /\ MainView
  /\ savedOutfits' = FilterOut(savedOutfits, outfitId)
  /\ heap' = Collect(heap, outfitHistory, FilterOut(savedOutfits, outfitId))
  /\ savedStore' = setItem(Stringify(savedOutfits', heap'), accepted)
  /\ UNCHANGED <<modelImageUrl, outfitHistory, currentOutfitIndex, currentPoseIndex,
                 isLoading, error, wardrobe, pending, ssVars, isOnline, crashed, now>>

\* handleEnhanceAndSave up to its await
handleEnhanceAndSave ==
  /\ MainView
  /\ IF displayImageUrl = Null \/ isLoading
       THEN            /\ UNCHANGED <<error, isLoading, pending>>
     ELSE IF Offline
       THEN /\ error' = OfflineEnhanceMsg
            /\ UNCHANGED <<isLoading, pending>>
       ELSE /\ error' = NoError
            /\ isLoading' = TRUE
            /\ pending' = Append(pending, Call("enhance", 0, 0, 0))
  /\ UNCHANGED <<modelImageUrl, outfitHistory, heap, currentOutfitIndex, currentPoseIndex,
                 wardrobe, savedOutfits, ssVars, isOnline, crashed, now>>
  /\ UNCHANGED savedStore

\* handleEnhanceAndSave after its await: the image is downloaded, or the
\* failure is reported
enhanceDone(i, ok) ==
  /\ i \in 1..Len(pending) /\ pending[i].kind = "enhance"
  /\ error' = IF ok \/ crashed THEN error ELSE FailedEnhanceMsg
  /\ isLoading' = IF crashed THEN isLoading ELSE FALSE
  /\ pending' = RemoveAt(pending, i)
  /\ UNCHANGED <<modelImageUrl, outfitHistory, heap, currentOutfitIndex, currentPoseIndex,
                 wardrobe, savedOutfits, ssVars, isOnline, crashed, now>>
  /\ UNCHANGED savedStore

\* ------------------------------------------------- the durable session
\* a record that keeps the active layers only
SessionRecordActiveOnly ==
  [modelImageUrl |-> modelImageUrl,
   outfitHistory |-> Content(heap, activeOutfitLayers),
   wardrobe |-> wardrobe,
   currentOutfitIndex |-> currentOutfitIndex]

\* the record the persist effect hands to dbSet; the store keeps a copy by
\* value (a structured clone)
SessionRecord ==
  [modelImageUrl |-> modelImageUrl,
   outfitHistory |-> Content(heap, outfitHistory),
   wardrobe |-> wardrobe,
   currentOutfitIndex |-> currentOutfitIndex]

\* the layer objects dbGet returns: new objects, one per stored layer
Restored(layers) ==
  [i \in 1..Len(layers) |-> NthFree(Referenced(<<>>, savedOutfits), i)]
RestoredHeap(layers) ==
  [o \in ObjIds |->
     IF \E i \in 1..Len(layers) : Restored(layers)[i] = o
       THEN layers[CHOOSE i \in 1..Len(layers) : Restored(layers)[i] = o]
     ELSE IF o \in Referenced(<<>>, savedOutfits) THEN heap[o] ELSE NoLayer]

\* loadSession, from the answer of dbGet to the end of its finally.  dbGet
\* was called at mount; Start Over may have asked for the record to be
\* deleted since, and the answer is the record as the store held it at the
\* call or as it holds it now.  In a tree that is unmounted the setters do
\* nothing.
loadSession ==
  /\ sessionRead # <<>>
  /\ \E found \in {sessionRead[1], session} :
       IF crashed
         THEN UNCHANGED <<modelImageUrl, outfitHistory, heap, wardrobe, currentOutfitIndex,
                          ssVars, isSessionLoaded>>
       ELSE IF found # <<>> /\ found[1].modelImageUrl # Null
         THEN LET savedSession == found[1] IN
              /\ Len(savedSession.outfitHistory) <= Cardinality(FreeIds(<<>>, savedOutfits))
              /\ modelImageUrl' = savedSession.modelImageUrl
              /\ outfitHistory' = Restored(savedSession.outfitHistory)
              /\ heap' = RestoredHeap(savedSession.outfitHistory)
              /\ wardrobe' = savedSession.wardrobe
              /\ currentOutfitIndex' = savedSession.currentOutfitIndex
              /\ unmountStartScreen
              /\ isSessionLoaded' = TRUE
         ELSE /\ isSessionLoaded' = TRUE
              /\ UNCHANGED <<modelImageUrl, outfitHistory, heap, wardrobe, currentOutfitIndex,
                             ssVars>>
  /\ sessionRead' = <<>>
  /\ UNCHANGED <<currentPoseIndex, isLoading, error, savedOutfits, pending,
                 isOnline, crashed, now, session>>
  /\ UNCHANGED savedStore

\* loadSession when dbGet rejects: the catch logs, the finally runs (and
\* sets nothing in a tree that is unmounted)
loadSessionFailed ==
  /\ sessionRead # <<>>
  /\ isSessionLoaded' = IF crashed THEN isSessionLoaded ELSE TRUE
  /\ sessionRead' = <<>>
  /\ UNCHANGED <<appVars, ssVars, isOnline, crashed, now, session>>
  /\ UNCHANGED savedStore

\* the dependencies of the persist effect
persistDeps ==
  <<modelImageUrl, outfitHistory, Content(heap, outfitHistory), wardrobe,
    currentOutfitIndex, isSessionLoaded>>

\* a persist effect that does not wait for the startup read
persistBeforeLoad ==
  /\ modelImageUrl # Null
  /\ session' = <<SessionRecord>>
  /\ UNCHANGED <<appVars, ssVars, isOnline, crashed, now, isSessionLoaded, sessionRead>>

\* the persist effect: it runs after a render in which one of its
\* dependencies changed, once the session is loaded and while a model exists
persistSession ==
  /\ isSessionLoaded /\ modelImageUrl # Null
  /\ session' = <<SessionRecord>>
  /\ UNCHANGED <<appVars, ssVars, isOnline, crashed, now, isSessionLoaded, sessionRead>>

\* a Start Over that leaves the session record in the store
startOverKeepsRecord ==
  /\ handleStartOver
  /\ UNCHANGED bootVars

\* handleStartOver with its request to delete the session record
startOverAndDelete ==
  /\ handleStartOver
  /\ session' = <<>>
  /\ UNCHANGED <<isSessionLoaded, sessionRead>>

\* what a step of App leaves in the session store once the render after it
\* has run its effects: handleStartOver asks for the record to be deleted,
\* and the persist effect hands the record of the new render to the store
\* when one of its dependencies changed
sessionEffects ==
  /\ UNCHANGED <<isSessionLoaded, sessionRead>>
  /\ session' = IF modelImageUrl # Null /\ modelImageUrl' = Null
                  THEN <<>>
                ELSE IF isSessionLoaded /\ modelImageUrl' # Null /\ persistDeps' # persistDeps
                  THEN <<SessionRecord'>>
                  ELSE session

\* ----------------------------------------------------- the specification
\* what a specification explores: histories of at most h layers, catalogs of
\* at most s outfits, at most p calls of App in flight
Within(h, s, p) ==
  /\ Len(outfitHistory) <= h
  /\ Len(savedOutfits) <= s
  /\ Len(pending) <= p

\* at most r file reads and model calls of start screens are in flight
Reads(r) == Len(ssPending) <= r

\* while the main view is shown, at most n calls and reads are in flight
MainFlight(n) == modelImageUrl # Null => Len(pending) + Len(ssPending) <= n

\* the store does not hold the catalog: a write was refused, or a layer of a
\* saved outfit was assigned into after the write
LagFlight(n) ==
  (modelImageUrl # Null /\ savedStore # StoreOf(Stringify(savedOutfits, heap)))
    => Len(pending) + Len(ssPending) <= n

\* a step of the program that leaves the history variable alone
Quiet(A) ==
  A /\ sessionEffects /\ UNCHANGED last /\ UNCHANGED apiVars
    /\ Within(MaxHistory, MaxSaved, MaxPending)' /\ Reads(MaxReads)' /\ MainFlight(MaxFlight)'
    /\ LagFlight(MaxLagFlight)' /\ now' <= MaxNow

garmentSettles(imgs) ==
  \E i \in 1..Len(pending), ok \in BOOLEAN, img \in imgs : garmentDone(i, ok, img)
poseSettles(imgs) ==
  \E i \in 1..Len(pending), ok \in BOOLEAN, img \in imgs : poseDone(i, ok, img)
backgroundSettles(imgs) ==
  \E i \in 1..Len(pending), ok \in BOOLEAN, img \in imgs : backgroundDone(i, ok, img)
enhanceSettles ==
  \E i \in 1..Len(pending), ok \in BOOLEAN : enhanceDone(i, ok)

\* the whole program: every handler, every completion, in any order
Next ==
  \/ Quiet(handleOnline)
  \/ Quiet(handleOffline)
  \/ Quiet(setSelectedGender)
  \/ Quiet(\E isImage \in BOOLEAN : handleFileSelect(isImage))
  \/ Quiet(\E i \in 1..Len(ssPending) : readerOnload(i))
  \/ Quiet(\E i \in 1..Len(ssPending), ok \in BOOLEAN, img \in 1..MaxImg :
             generateModelDone(i, ok, img))
  \/ Quiet(reset)
  \/ Quiet(handleModelFinalized)
  \/ Quiet(handleStartOver)
  \/ Quiet(\E g \in 1..MaxGarment : handleGarmentSelect(g))
  \/ Quiet(garmentSettles(1..MaxImg))
  \/ Quiet(handleRemoveLastGarment)
  \/ Quiet(\E n \in Poses : handlePoseSelect(n))
  \/ Quiet(poseSettles(1..MaxImg))
  \/ Quiet(handleBackgroundChange)
  \/ Quiet(backgroundSettles(1..MaxImg))
  \/ Quiet(\E accepted \in BOOLEAN : handleSaveOutfit(accepted))
  \/ Quiet(\E k \in 1..Len(savedOutfits) : handleLoadOutfit(k))
  \/ Quiet(\E id \in 0..MaxClock, accepted \in BOOLEAN : handleDeleteOutfit(id, accepted))
  \/ Quiet(handleEnhanceAndSave)
  \/ Quiet(enhanceSettles)

Spec == Init /\ [][Next]_vars

\* ------------------------------------------------- one editing session
\* the state handleModelFinalized leaves when the first model is accepted
\* and has run its effects: the session record is in the store
InitSession(imgs) ==
  /\ modelImageUrl \in imgs
  /\ outfitHistory = <<1>>
  /\ heap = [o \in ObjIds |->
              IF o = 1 THEN [garment |-> Null, poseImages |-> <<<<0, modelImageUrl>>>>]
                       ELSE NoLayer]
  /\ currentOutfitIndex = 0
  /\ currentPoseIndex = 0
  /\ isLoading = FALSE
  /\ error = NoError
  /\ wardrobe = defaultWardrobe
  /\ savedOutfits = <<>>
  /\ pending = <<>>
  /\ userImageUrl = Null
  /\ isGenerating = FALSE
  /\ selectedGender = Null
  /\ ssPending = <<>>
  /\ ssError = NoError
  /\ generatedModelUrl = Null
  /\ crashed = FALSE
  /\ now = 0
  /\ session = <<SessionRecord>>
  /\ isSessionLoaded = TRUE
  /\ sessionRead = <<>>
  /\ last = Did("init", 0, NoSnap)
  /\ savedStore = StoreOf(<<>>)
  /\ response = NoResponse
  /\ apiResult = NotCalled

\* a step of the program recorded in the history variable
Rec(A, op, arg, snap, h, s, p) ==
  A /\ sessionEffects /\ last' = Did(op, arg, snap) /\ UNCHANGED apiVars
    /\ Within(h, s, p)'

\* layers of the history beyond the cursor (the redo history)
Beyond == Len(outfitHistory) - Len(activeOutfitLayers)

\* garments are applied and removed one after the other, every application
\* succeeds and runs to completion before the next action starts
InitSeq == InitSession(1..EditImg) /\ isOnline = TRUE

NextSeq ==
  \/ Rec(\E g \in 1..EditGarment : handleGarmentSelect(g),
         "handleGarmentSelect", Beyond, NoSnap, EditHistory, 0, 1)
  \/ Rec(\E img \in 1..EditImg : garmentDone(1, TRUE, img),
         "garmentDone", Beyond, NoSnap, EditHistory, 0, 1)
  \/ Rec(pending = <<>> /\ handleRemoveLastGarment,
         "handleRemoveLastGarment", Beyond, NoSnap, EditHistory, 0, 1)

SpecSeq == InitSeq /\ [][NextSeq]_vars

\* garments are applied and removed in any order with the completions of
\* the calls: handleRemoveLastGarment does not look at isLoading
NextRace ==
  \/ Rec(\E g \in 1..EditGarment : handleGarmentSelect(g),
         "handleGarmentSelect", Beyond, NoSnap, EditHistory, 0, 1)
  \/ Rec(\E img \in 1..EditImg : garmentDone(1, TRUE, img),
         "garmentDone", Beyond, NoSnap, EditHistory, 0, 1)
  \/ Rec(garmentDone(1, FALSE, 1),
         "garmentFailed", Beyond, NoSnap, EditHistory, 0, 1)
  \/ Rec(handleRemoveLastGarment,
         "handleRemoveLastGarment", Beyond, NoSnap, EditHistory, 0, 1)

SpecRace == InitSeq /\ [][NextRace]_vars

\* one session with its catalog: outfits are saved, loaded and deleted
\* between garment, pose and background operations; the background is
\* changed while the cursor is on the base layer
InitSave == InitSession(1..SaveImg) /\ isOnline = TRUE

SaveStep(A, op, arg, snap) ==
  Rec(A, op, arg, snap, SaveHistory, 1, 1) /\ LagFlight(MaxLagFlight)'

NextSave ==
  \/ SaveStep(handleGarmentSelect(1), "edit", 0, NoSnap)
  \/ SaveStep(garmentSettles({1}), "edit", 0, NoSnap)
  \/ SaveStep(handleRemoveLastGarment, "edit", 0, NoSnap)
  \/ SaveStep(\E n \in Poses : handlePoseSelect(n), "edit", 0, NoSnap)
  \/ SaveStep(poseSettles({1}), "edit", 0, NoSnap)
  \/ SaveStep(currentOutfitIndex = 0 /\ handleBackgroundChange, "edit", 0, NoSnap)
  \/ SaveStep(backgroundSettles(1..SaveImg), "edit", 0, NoSnap)
  \/ SaveStep(\E accepted \in BOOLEAN : handleSaveOutfit(accepted), "handleSaveOutfit",
              IF SaveAccepted THEN 1 ELSE 0,
              [layers |-> Content(heap, activeOutfitLayers), beyond |-> Beyond])
  \/ \E k \in 1..Len(savedOutfits) :
       SaveStep(handleLoadOutfit(k), "handleLoadOutfit", k,
                IF last.op = "handleSaveOutfit" /\ last.arg = 1 THEN last.snap ELSE NoSnap)
  \/ SaveStep(\E id \in 0..MaxClock, accepted \in BOOLEAN : handleDeleteOutfit(id, accepted),
              "edit", 0, NoSnap)

SpecSave == InitSave /\ [][NextSave]_vars

\* the places of a catalog that hold an outfit with the id
WithId(saved, outfitId) == {k \in 1..Len(saved) : saved[k].id = outfitId}

\* one session, its catalog and the clock: outfits are saved and deleted
\* while time passes, or does not; a delete records its id and how many
\* outfits of the catalog had it
InitClock == InitSession({1}) /\ isOnline = TRUE

ClockStep(A, op) == Rec(A, op, 0, NoSnap, ClockHistory, ClockSaved, 1)

NextClock ==
  \/ ClockStep(handleGarmentSelect(1), "handleGarmentSelect")
  \/ ClockStep(garmentSettles(1..ClockImg), "garmentSettles")
  \/ ClockStep(handleRemoveLastGarment, "handleRemoveLastGarment")
  \/ ClockStep(\E accepted \in BOOLEAN : handleSaveOutfit(accepted), "handleSaveOutfit")
  \/ \E id \in 0..MaxClock :
       Rec(\E accepted \in BOOLEAN : handleDeleteOutfit(id, accepted), "handleDeleteOutfit", id,
           [had |-> Cardinality(WithId(savedOutfits, id))],
           ClockHistory, ClockSaved, 1)
  \/ ClockStep(Tick, "Tick")

SpecClock == InitClock /\ [][NextClock]_vars

\* one session and its poses: garments are applied and removed, poses are
\* asked for, and a pose call fails or succeeds.  The step that issues a call
\* records the cursors, the layers and the image shown before it; the
\* steps up to the next issue carry that record along.
InitPose == InitSession(1..PoseImg) /\ isOnline = TRUE

PoseStep(A, op) ==
  /\ A
  /\ sessionEffects
  /\ UNCHANGED apiVars
  /\ Within(PoseHistory, 0, 1)'
  /\ last' = IF Len(pending') > Len(pending)
               THEN Did(op, currentPoseIndex,
                        [layers |-> Content(heap, outfitHistory),
                         beyond |-> Beyond, shown |-> displayImageUrl])
               ELSE Did(op, last.arg, last.snap)

NextPose ==
  \/ PoseStep(handleGarmentSelect(1), "handleGarmentSelect")
  \/ PoseStep(\E img \in 1..PoseImg : garmentDone(1, TRUE, img), "garmentDone")
  \/ PoseStep(handleRemoveLastGarment, "handleRemoveLastGarment")
  \/ PoseStep(\E n \in 0..(PosePoses - 1) : handlePoseSelect(n), "handlePoseSelect")
  \/ PoseStep(\E img \in 1..PoseImg : poseDone(1, TRUE, img), "poseDone")
  \/ PoseStep(poseDone(1, FALSE, 1), "poseFailed")

SpecPose == InitPose /\ [][NextPose]_vars

\* one session and the image it shows: garments, poses and backgrounds are
\* asked for and their calls fail or succeed (a garment call answers with
\* image 1, a pose or background call with image 2), layers are removed,
\* outfits are saved (the store takes the write) and loaded, and the session
\* is given up
InitShow == InitSession(1..ShowImg) /\ isOnline = TRUE

NextShow ==
  \/ Rec(handleGarmentSelect(1), "show", 0, NoSnap, ShowHistory, ShowSaved, 1)
  \/ Rec(garmentSettles({1}), "show", 0, NoSnap, ShowHistory, ShowSaved, 1)
  \/ Rec(handleRemoveLastGarment, "show", 0, NoSnap, ShowHistory, ShowSaved, 1)
  \/ Rec(\E n \in 0..(ShowPoses - 1) : handlePoseSelect(n),
         "show", 0, NoSnap, ShowHistory, ShowSaved, 1)
  \/ Rec(poseSettles({2}), "show", 0, NoSnap, ShowHistory, ShowSaved, 1)
  \/ Rec(handleBackgroundChange, "show", 0, NoSnap, ShowHistory, ShowSaved, 1)
  \/ Rec(backgroundSettles({2}), "show", 0, NoSnap, ShowHistory, ShowSaved, 1)
  \/ Rec(handleSaveOutfit(TRUE), "show", 0, NoSnap, ShowHistory, ShowSaved, 1)
  \/ Rec(\E k \in 1..Len(savedOutfits) : handleLoadOutfit(k),
         "show", 0, NoSnap, ShowHistory, ShowSaved, 1)
  \/ Rec(handleStartOver, "show", 0, NoSnap, ShowHistory, ShowSaved, 1)

SpecShow == InitShow /\ [][NextShow]_vars

\* one session with its connectivity: garments are applied, removed and
\* selected again, online and offline; a garment selection records the
\* garment and the number of layers beyond the cursor before it, a pose
\* selection the pose asked for and the pose cursor before it
InitRedo == InitSession({1}) /\ isOnline = TRUE

RedoStep(A, op, arg) ==
  Rec(A, op, arg, [layers |-> <<>>, beyond |-> Beyond], RedoHistory, 0, 1)

NextRedo ==
  \/ RedoStep(handleOnline, "handleOnline", 0)
  \/ RedoStep(handleOffline, "handleOffline", 0)
  \/ \E g \in 1..RedoGarment :
       RedoStep(handleGarmentSelect(g), "handleGarmentSelect", g)
  \/ RedoStep(garmentSettles({1}), "garmentSettles", 0)
  \/ RedoStep(handleRemoveLastGarment, "handleRemoveLastGarment", 0)
  \/ \E n \in Poses :
       RedoStep(handlePoseSelect(n), "handlePoseSelect", <<n, currentPoseIndex>>)
  \/ RedoStep(poseSettles({1}), "poseSettles", 0)

SpecRedo == InitRedo /\ [][NextRedo]_vars

\* React runs the persist effect after the render that follows a step which
\* changed one of its dependencies, before the next event is handled.  A step
\* records 1 when it changed a dependency of the effect, and the effect then
\* runs next.
PersistStep(A, op) ==
  /\ last.arg = 0
  /\ A
  /\ Within(PersistHistory, 0, 1)' /\ Reads(PersistReads)'
  /\ last' = Did(op, IF persistDeps' # persistDeps THEN 1 ELSE 0, NoSnap)
  /\ UNCHANGED apiVars

persistEffect ==
  /\ last.arg = 1
  /\ \/ persistSession
     \/ /\ ~(isSessionLoaded /\ modelImageUrl # Null)
        /\ UNCHANGED <<appVars, ssVars, isOnline, crashed, now, bootVars>>
  /\ last' = Did("effect", 0, NoSnap)
  /\ UNCHANGED apiVars /\ UNCHANGED savedStore

\* startup: the durable store holds a record written by an earlier run, or
\* none; while the session is read the start screen is shown and used, and
\* the read ends before or after a model is generated and finalized
StoredLayers ==
  {[garment |-> g, poseImages |-> pi] :
     g \in 0..BootGarment,
     pi \in {<<<<0, 1>>>>, <<<<1, 1>>>>, <<<<0, 1>>, <<1, 2>>>>, <<<<1, 2>>, <<0, 1>>>>}}

StoredSessions ==
  {<<>>} \cup
  {<<[modelImageUrl |-> m, outfitHistory |-> h, wardrobe |-> w, currentOutfitIndex |-> c]>> :
     m \in 0..1, h \in UNION {[1..n -> StoredLayers] : n \in 0..BootHistory},
     w \in {<<1>>, <<1, 2>>}, c \in 0..BootHistory}

InitBoot ==
  /\ modelImageUrl = Null
  /\ outfitHistory = <<>>
  /\ heap = [o \in ObjIds |-> NoLayer]
  /\ currentOutfitIndex = 0
  /\ currentPoseIndex = 0
  /\ isLoading = FALSE
  /\ error = NoError
  /\ isOnline = TRUE
  /\ wardrobe = defaultWardrobe
  /\ savedOutfits = <<>>
  /\ pending = <<>>
  /\ userImageUrl = Null
  /\ isGenerating = FALSE
  /\ selectedGender = Null
  /\ ssPending = <<>>
  /\ ssError = NoError
  /\ generatedModelUrl = Null
  /\ crashed = FALSE
  /\ now = 0
  /\ session \in StoredSessions
  /\ isSessionLoaded = FALSE
  /\ sessionRead = <<session>>
  /\ last = Did("init", 0, NoSnap)
  /\ savedStore = StoreOf(<<>>)
  /\ response = NoResponse
  /\ apiResult = NotCalled

NextBoot ==
  \/ PersistStep(loadSession, "loadSession")
  \/ PersistStep(loadSessionFailed, "loadSessionFailed")
  \/ PersistStep(setSelectedGender /\ UNCHANGED bootVars, "setSelectedGender")
  \/ PersistStep(handleFileSelect(TRUE) /\ UNCHANGED bootVars, "handleFileSelect")
  \/ PersistStep((\E i \in 1..Len(ssPending) : readerOnload(i)) /\ UNCHANGED bootVars,
                 "readerOnload")
  \/ PersistStep((\E i \in 1..Len(ssPending) : generateModelDone(i, TRUE, 2))
                   /\ UNCHANGED bootVars, "generateModelDone")
  \/ PersistStep(handleModelFinalized /\ UNCHANGED bootVars, "handleModelFinalized")
  \/ PersistStep(handleGarmentSelect(1) /\ UNCHANGED bootVars, "handleGarmentSelect")
  \/ PersistStep(garmentDone(1, TRUE, 1) /\ UNCHANGED bootVars, "garmentDone")
  \/ PersistStep(handleRemoveLastGarment /\ UNCHANGED bootVars, "handleRemoveLastGarment")
  \/ persistEffect

SpecBoot == InitBoot /\ [][NextBoot]_vars

\* startup and the session after it, with the durable store: the startup
\* read ends in any order with what the user does
PersistSessions ==
  {<<>>} \cup
  {<<[modelImageUrl |-> m, outfitHistory |-> h, wardrobe |-> w, currentOutfitIndex |-> c]>> :
     m \in 0..1, w \in {<<1>>, <<1, 2>>},
     h \in {<<[garment |-> Null, poseImages |-> <<<<0, 1>>>>]>>,
            <<[garment |-> Null, poseImages |-> <<<<0, 1>>>>],
              [garment |-> 1, poseImages |-> <<<<0, 1>>>>]>>},
     c \in 0..1}

InitPersist ==
  /\ modelImageUrl = Null
  /\ outfitHistory = <<>>
  /\ heap = [o \in ObjIds |-> NoLayer]
  /\ currentOutfitIndex = 0
  /\ currentPoseIndex = 0
  /\ isLoading = FALSE
  /\ error = NoError
  /\ isOnline = TRUE
  /\ wardrobe = defaultWardrobe
  /\ savedOutfits = <<>>
  /\ pending = <<>>
  /\ userImageUrl = Null
  /\ isGenerating = FALSE
  /\ selectedGender = Null
  /\ ssPending = <<>>
  /\ ssError = NoError
  /\ generatedModelUrl = Null
  /\ crashed = FALSE
  /\ now = 0
  /\ session \in PersistSessions
  /\ isSessionLoaded = FALSE
  /\ sessionRead = <<session>>
  /\ last = Did("init", 0, NoSnap)
  /\ savedStore = StoreOf(<<>>)
  /\ response = NoResponse
  /\ apiResult = NotCalled

NextPersist ==
  \/ PersistStep(loadSession, "loadSession")
  \/ PersistStep(loadSessionFailed, "loadSessionFailed")
  \/ PersistStep(setSelectedGender /\ UNCHANGED bootVars, "setSelectedGender")
  \/ PersistStep(handleFileSelect(TRUE) /\ UNCHANGED bootVars, "handleFileSelect")
  \/ PersistStep((\E i \in 1..Len(ssPending) : readerOnload(i)) /\ UNCHANGED bootVars,
                 "readerOnload")
  \/ PersistStep((\E i \in 1..Len(ssPending) : generateModelDone(i, TRUE, 1))
                   /\ UNCHANGED bootVars, "generateModelDone")
  \/ PersistStep(handleModelFinalized /\ UNCHANGED bootVars, "handleModelFinalized")
  \/ PersistStep(startOverAndDelete, "handleStartOver")
  \/ PersistStep(handleOnline /\ UNCHANGED bootVars, "handleOnline")
  \/ PersistStep(handleOffline /\ UNCHANGED bootVars, "handleOffline")
  \/ PersistStep((\E g \in 1..PersistGarment : handleGarmentSelect(g)) /\ UNCHANGED bootVars,
                 "handleGarmentSelect")
  \/ PersistStep(garmentDone(1, TRUE, 1) /\ UNCHANGED bootVars, "garmentDone")
  \/ PersistStep(garmentDone(1, FALSE, 1) /\ UNCHANGED bootVars, "garmentFailed")
  \/ PersistStep(handleRemoveLastGarment /\ UNCHANGED bootVars, "handleRemoveLastGarment")
  \/ PersistStep((\E n \in Poses : handlePoseSelect(n)) /\ UNCHANGED bootVars, "handlePoseSelect")
  \/ PersistStep(poseSettles({1}) /\ UNCHANGED bootVars, "poseSettles")
  \/ persistEffect

SpecPersist == InitPersist /\ [][NextPersist]_vars

\* sessions and their layers: models are finalized and given up, garments
\* are applied and removed, poses and backgrounds are asked for, and every
\* call fails or succeeds, in any order with the handlers.  Each step records
\* its handler, and a completion the place of its call among those in flight
\* (a successful background change the image it received as well).
InitLayers == Init /\ isOnline = TRUE /\ savedStore = StoreOf(<<>>)

LayerStep(A, op, arg) ==
  Rec(A, op, arg, NoSnap, LayerHistory, 0, LayerPending) /\ Reads(LayerReads)'

NextLayers ==
  \/ LayerStep(setSelectedGender, "setSelectedGender", 0)
  \/ LayerStep(handleFileSelect(TRUE), "handleFileSelect", 0)
  \/ LayerStep(\E i \in 1..Len(ssPending) : readerOnload(i), "readerOnload", 0)
  \/ LayerStep(\E i \in 1..Len(ssPending) : generateModelDone(i, TRUE, 1),
               "generateModelDone", 0)
  \/ LayerStep(handleModelFinalized, "handleModelFinalized", 0)
  \/ LayerStep(handleStartOver, "handleStartOver", 0)
  \/ LayerStep(handleGarmentSelect(1), "handleGarmentSelect", 0)
  \/ \E i \in 1..LayerPending :
       LayerStep(\E img \in 1..LayerImg : garmentDone(i, TRUE, img), "garmentDone", i)
  \/ \E i \in 1..LayerPending :
       LayerStep(garmentDone(i, FALSE, 1), "garmentFailed", i)
  \/ LayerStep(handleRemoveLastGarment, "handleRemoveLastGarment", 0)
  \/ \E n \in Poses : LayerStep(handlePoseSelect(n), "handlePoseSelect", n)
  \/ \E i \in 1..LayerPending :
       LayerStep(\E img \in 1..LayerImg : poseDone(i, TRUE, img), "poseDone", i)
  \/ \E i \in 1..LayerPending :
       LayerStep(poseDone(i, FALSE, 1), "poseFailed", i)
  \/ LayerStep(handleBackgroundChange, "handleBackgroundChange", 0)
  \/ \E i \in 1..LayerPending, img \in 1..LayerImg :
       LayerStep(backgroundDone(i, TRUE, img), "backgroundDone", <<i, img>>)
  \/ \E i \in 1..LayerPending :
       LayerStep(backgroundDone(i, FALSE, 1), "backgroundFailed", i)

SpecLayers == InitLayers /\ [][NextLayers]_vars

\* startup and the session after it, with the session store and the
\* saved-outfits store.  The mount effects of the catalog run first; a step
\* records which persist effects the render after it runs (the session's,
\* the catalog's), and these run before the next event is handled.  The
\* startup read of the session ends in any order with what the user does.
StoredOutfits ==
  {[id |-> 0, previewImageUrl |-> 1, createdAt |-> 0,
    layers |-> <<[garment |-> Null, poseImages |-> <<<<0, m>>>>],
                 [garment |-> 1, poseImages |-> pi]>>] :
     m \in 1..2, pi \in {<<<<0, 1>>, <<1, 2>>>>}}

StoredCatalogs ==
  {AbsentStore, CorruptStore, StoreOf(<<>>)} \cup {StoreOf(<<o>>) : o \in StoredOutfits}

StoreSessions ==
  {<<>>} \cup
  {<<[modelImageUrl |-> 1, outfitHistory |-> h, wardrobe |-> w,
      currentOutfitIndex |-> Len(h) - 1]>> :
     w \in {<<1>>, <<1, 2>>},
     h \in {<<[garment |-> Null, poseImages |-> <<<<0, 1>>>>]>>,
            <<[garment |-> Null, poseImages |-> <<<<0, 1>>>>],
              [garment |-> 1, poseImages |-> <<<<0, 1>>>>]>>}}

InitStore ==
  /\ modelImageUrl = Null
  /\ outfitHistory = <<>>
  /\ heap = [o \in ObjIds |-> NoLayer]
  /\ currentOutfitIndex = 0
  /\ currentPoseIndex = 0
  /\ isLoading = FALSE
  /\ error = NoError
  /\ isOnline = TRUE
  /\ wardrobe = defaultWardrobe
  /\ savedOutfits = <<>>
  /\ pending = <<>>
  /\ userImageUrl = Null
  /\ isGenerating = FALSE
  /\ selectedGender = Null
  /\ ssPending = <<>>
  /\ ssError = NoError
  /\ generatedModelUrl = Null
  /\ crashed = FALSE
  /\ now = 0
  /\ session \in StoreSessions
  /\ isSessionLoaded = FALSE
  /\ sessionRead = <<session>>
  /\ last = Did("init", <<0, 0>>, NoSnap)
  /\ savedStore \in StoredCatalogs
  /\ response = NoResponse
  /\ apiResult = NotCalled

\* no persist effect is due
NoEffectDue == last.arg = <<0, 0>>

StoreStep(A, op) ==
  /\ last.op # "init" /\ NoEffectDue
  /\ A
  /\ Within(StoreHistory, StoreSaved, 1)' /\ Reads(StoreReads)'
  /\ UNCHANGED apiVars
  /\ last' = Did(op, <<IF persistDeps' # persistDeps THEN 1 ELSE 0, 0>>, NoSnap)

mountStep ==
  /\ last.op = "init"
  /\ \E accepted \in BOOLEAN : mountSavedOutfits(accepted)
  /\ UNCHANGED bootVars /\ UNCHANGED apiVars
  /\ last' = Did("mount", <<0, IF savedStore.kind = "list" THEN 1 ELSE 0>>, savedStore)

storeEffects ==
  /\ ~NoEffectDue
  /\ IF last.arg[2] = 1 THEN \E accepted \in BOOLEAN : persistSavedOutfits(accepted)
                          ELSE persistNothing
  /\ IF last.arg[1] = 1 /\ isSessionLoaded /\ modelImageUrl # Null
       THEN persistSession ELSE UNCHANGED bootVars
  /\ UNCHANGED apiVars
  /\ last' = IF last.op = "mount" THEN Did("mountEffects", <<0, 0>>, last.snap)
                                 ELSE Did("effects", <<0, 0>>, NoSnap)

NextStore ==
  \/ mountStep
  \/ storeEffects
  \/ StoreStep(loadSession, "loadSession")
  \/ StoreStep(loadSessionFailed, "loadSessionFailed")
  \/ StoreStep(setSelectedGender /\ UNCHANGED bootVars, "setSelectedGender")
  \/ StoreStep(handleFileSelect(TRUE) /\ UNCHANGED bootVars, "handleFileSelect")
  \/ StoreStep((\E i \in 1..Len(ssPending) : readerOnload(i)) /\ UNCHANGED bootVars,
               "readerOnload")
  \/ StoreStep((\E i \in 1..Len(ssPending) : generateModelDone(i, TRUE, 1))
                 /\ UNCHANGED bootVars, "generateModelDone")
  \/ StoreStep(handleModelFinalized /\ UNCHANGED bootVars, "handleModelFinalized")
  \/ StoreStep(startOverAndDelete, "handleStartOver")
  \/ StoreStep(handleRemoveLastGarment /\ UNCHANGED bootVars, "handleRemoveLastGarment")
  \/ StoreStep((\E n \in Poses : handlePoseSelect(n)) /\ UNCHANGED bootVars,
               "handlePoseSelect")
  \/ StoreStep(poseDone(1, TRUE, 2) /\ UNCHANGED bootVars, "poseDone")
  \/ StoreStep((\E accepted \in BOOLEAN : handleSaveOutfit(accepted)) /\ UNCHANGED bootVars,
               "handleSaveOutfit")
  \/ StoreStep((\E k \in 1..Len(savedOutfits) : handleLoadOutfit(k)) /\ UNCHANGED bootVars,
               "handleLoadOutfit")
  \/ StoreStep((\E accepted \in BOOLEAN : handleDeleteOutfit(0, accepted)) /\ UNCHANGED bootVars,
               "handleDeleteOutfit")

SpecStore == InitStore /\ [][NextStore]_vars

\* sessions whose calls settle: the start screen, Start Over, the four
\* Gateway-backed actions and remove; a request is made only while fewer than
\* LivePending calls are in flight and its result fits the history, and a
\* call in flight can always resolve or reject
InitLive == InitSession({1}) /\ isOnline = TRUE

LiveStep(A) ==
  A /\ sessionEffects /\ UNCHANGED last /\ UNCHANGED apiVars

LiveRequest(A) ==
  /\ Len(pending) < LivePending
  /\ LiveStep(A)

\* a call in flight resolves or rejects and its handler runs to its end
LiveSettle ==
  \E i \in 1..Len(pending), ok \in BOOLEAN :
    \/ LiveStep(garmentDone(i, ok, 1))
    \/ LiveStep(poseDone(i, ok, 1))
    \/ LiveStep(backgroundDone(i, ok, 1))
    \/ LiveStep(enhanceDone(i, ok))

NextLive ==
  \/ LiveStep(setSelectedGender)
  \/ Len(ssPending) < LiveReads /\ LiveStep(handleFileSelect(TRUE))
  \/ LiveStep(\E i \in 1..Len(ssPending) : readerOnload(i))
  \/ LiveStep(\E i \in 1..Len(ssPending) : generateModelDone(i, TRUE, 1))
  \/ LiveStep(handleModelFinalized)
  \/ LiveStep(handleStartOver)
  \/ currentOutfitIndex + 2 <= LiveHistory /\ LiveRequest(handleGarmentSelect(1))
  \/ LiveStep(handleRemoveLastGarment)
  \/ \E n \in Poses : LiveRequest(handlePoseSelect(n))
  \/ LiveRequest(handleBackgroundChange)
  \/ LiveRequest(handleEnhanceAndSave)
  \/ LiveSettle

\* the Gateway answers every call: a completion that stays possible happens
SpecLive == InitLive /\ [][NextLive]_vars /\ WF_vars(LiveSettle)

\* the Gateway's answers: every answer of up to ApiCandidates candidates
\* with up to ApiParts parts each is handed to handleApiResponse once
ApiPartSeqs ==
  UNION {[1..n -> {[inlineData |-> d] : d \in 0..ApiData}] : n \in 0..ApiParts}

ApiCandidateSeqs ==
  UNION {[1..n -> [parts : ApiPartSeqs, finishReason : {Undefined, "STOP", "SAFETY"}]] :
           n \in 0..ApiCandidates}

Responses ==
  [blockReason : {Undefined, "SAFETY", "OTHER"},
   blockReasonMessage : {Undefined, "policy"},
   candidates : ApiCandidateSeqs,
   text : {Undefined, "  ", "hello"}]

InitApi ==
  /\ modelImageUrl = Null
  /\ outfitHistory = <<>>
  /\ heap = [o \in ObjIds |-> NoLayer]
  /\ currentOutfitIndex = 0
  /\ currentPoseIndex = 0
  /\ isLoading = FALSE
  /\ error = NoError
  /\ isOnline = TRUE
  /\ wardrobe = defaultWardrobe
  /\ savedOutfits = <<>>
  /\ pending = <<>>
  /\ userImageUrl = Null
  /\ isGenerating = FALSE
  /\ selectedGender = Null
  /\ ssPending = <<>>
  /\ ssError = NoError
  /\ generatedModelUrl = Null
  /\ crashed = FALSE
  /\ now = 0
  /\ session = <<>>
  /\ isSessionLoaded = TRUE
  /\ sessionRead = <<>>
  /\ last = Did("init", 0, NoSnap)
  /\ savedStore = StoreOf(<<>>)
  /\ response \in Responses
  /\ apiResult = NotCalled

NextApi ==
  /\ callHandleApiResponse
  /\ UNCHANGED <<appVars, ssVars, isOnline, crashed, now, bootVars, last, savedStore>>

SpecApi == InitApi /\ [][NextApi]_vars

\* ---------------------------------------------------------------- claims
\* C1: from a finalized model, after any sequence of successful garment
\* applications and removals run one at a time, the active layers are exactly
\* currentOutfitIndex + 1 layers and the first of them is the base layer
\* (garment null).
C1_ActiveLayers ==
  /\ Len(activeOutfitLayers) = currentOutfitIndex + 1
  /\ heap[activeOutfitLayers[1]].garment = Null

\* C1's case: three layers applied, then two removals
C1_Witness ==
  /\ Len(outfitHistory) = 3
  /\ currentOutfitIndex = 0
  /\ last.op = "handleRemoveLastGarment"

\* C3: a successful garment application started at cursor n, with nothing in
\* between, leaves the layers 0..n as they were, followed by the new layer
\* alone, and the cursor at n + 1, the last index: the layers that were beyond
\* the cursor are gone.
C3_AppendTruncates ==
  [][last'.op = "garmentDone" =>
       LET n == currentOutfitIndex IN
       /\ Len(outfitHistory') = n + 2
       /\ SubSeq(outfitHistory', 1, n + 1) = SubSeq(outfitHistory, 1, n + 1)
       /\ Content(heap', SubSeq(outfitHistory', 1, n + 1))
            = Content(heap, SubSeq(outfitHistory, 1, n + 1))
       /\ heap'[outfitHistory'[n + 2]].garment = pending[1].arg
       /\ Len(heap'[outfitHistory'[n + 2]].poseImages) = 1
       /\ currentOutfitIndex' = n + 1
       /\ currentOutfitIndex' = Len(outfitHistory') - 1]_vars

\* C3's case: [A, B, C] retreated to cursor 0, then D applied: [A, D], cursor 1
C3_Witness ==
  /\ last.op = "garmentDone"
  /\ last.arg = 2
  /\ Len(outfitHistory) = 2
  /\ currentOutfitIndex = 1

\* C4: when a garment application succeeds, whatever the user did while the
\* call was pending, the cursor is the last index of the history and the
\* layer there is the one just created.
C4_CursorOnNewLayer ==
  [][last'.op = "garmentDone" =>
       /\ currentOutfitIndex' = Len(outfitHistory') - 1
       /\ LayerAt(outfitHistory', currentOutfitIndex') # Null
       /\ heap'[LayerAt(outfitHistory', currentOutfitIndex')].garment = pending[1].arg]_vars

\* C2: whenever the history is not empty, the cursor is one of its indices
\* and its first layer is the base layer, in every interleaving of the user's
\* actions with the completions of pending calls.
C2_CursorInBounds ==
  Len(outfitHistory) > 0 =>
    /\ 0 <= currentOutfitIndex
    /\ currentOutfitIndex < Len(outfitHistory)
    /\ heap[outfitHistory[1]].garment = Null

\* Gateway calls in flight: those of App and the model generation of StartScreen
InFlight == Len(pending) + Cardinality(ModelCalls)

\* C5: at most one Gateway call is in flight, and isLoading is true for as
\* long as a call issued by App is pending.
C5_SingleFlight ==
  /\ InFlight <= 1
  /\ Len(pending) > 0 => isLoading

\* a Gateway-backed action taken where it reaches the Gateway when online
GatewayAction ==
  \/ /\ displayImageUrl # Null /\ ~isLoading
     /\ \E g \in 1..MaxGarment :
          /\ handleGarmentSelect(g)
          /\ LET nextLayer == LayerAt(outfitHistory, currentOutfitIndex + 1)
             IN  nextLayer = Null \/ heap[nextLayer].garment # g
  \/ /\ ~isLoading /\ LayerAt(outfitHistory, currentOutfitIndex) # Null
     /\ \E n \in Poses :
          /\ handlePoseSelect(n)
          /\ n # currentPoseIndex
          /\ ~HasPose(heap[LayerAt(outfitHistory, currentOutfitIndex)].poseImages, n)
  \/ displayImageUrl # Null /\ ~isLoading /\ handleBackgroundChange
  \/ displayImageUrl # Null /\ ~isLoading /\ handleEnhanceAndSave

\* C6: offline, a Gateway-backed action changes neither the history, the pose
\* caches, the cursors nor the wardrobe, puts an offline message in the error
\* slot, leaves isLoading false and issues no call; none is issued either when
\* connectivity returns.
C6_OfflineRejected ==
  [][/\ (~isOnline /\ GatewayAction) =>
          /\ UNCHANGED <<outfitHistory, heap, currentOutfitIndex, currentPoseIndex,
                         wardrobe, pending, ssPending>>
          /\ ~isLoading'
          /\ error' \in OfflineMsgs
     /\ (~isOnline /\ isOnline') => UNCHANGED <<pending, ssPending>>]_vars

\* C6's case: a rejection while offline, nothing in flight
C6_Witness ==
  /\ MainView /\ ~isOnline
  /\ error \in OfflineMsgs
  /\ ~isLoading /\ InFlight = 0

\* C7: whenever a Gateway call is issued, the connectivity flag is true.
C7_OnlineAtIssue ==
  [][(Len(pending') > Len(pending) \/ Cardinality(ModelCalls') > Cardinality(ModelCalls))
       => isOnline]_vars

\* C8: a step that keeps the catalog keeps the layers and the pose-to-image
\* mappings of every saved outfit.
C8_SavedAreSnapshots ==
  [][savedOutfits' = savedOutfits =>
       \A k \in 1..Len(savedOutfits) :
         Content(heap', savedOutfits[k].layers) = Content(heap, savedOutfits[k].layers)]_vars

\* C9: an outfit saved and loaded back at once, the load accepted, gives a
\* history equal in content to the active layers at save time, the cursor on
\* its last layer and the pose cursor at 0.
C9_RoundTrip ==
  [][(/\ last.op = "handleSaveOutfit" /\ last.arg = 1
      /\ last'.op = "handleLoadOutfit" /\ last'.arg = 1
      /\ ~isLoading
      /\ modelImageUrl = baseModelFromOutfit(heap, savedOutfits[1])) =>
       /\ Content(heap', outfitHistory') = last.snap.layers
       /\ currentOutfitIndex' = Len(outfitHistory') - 1
       /\ currentPoseIndex' = 0]_vars

\* C9's case: saved with a layer beyond the cursor, then loaded
C9_Witness ==
  /\ last.op = "handleLoadOutfit"
  /\ last.snap.beyond = 1
  /\ Len(last.snap.layers) = 2
  /\ error = NoError /\ ~isLoading
  /\ Content(heap, outfitHistory) = last.snap.layers

\* the base layer of the k-th saved outfit does not map the first pose to the
\* live model image
SavedBaseDiffers(k) ==
  LET base == heap[savedOutfits[k].layers[1]].poseImages
  IN  \A j \in 1..Len(base) : base[j] # <<0, modelImageUrl>>

\* C10: a load refused because the saved outfit's base image is not the live
\* model image changes neither the history nor the cursors and reports the
\* mismatch in the error slot; nothing throws.
C10_MismatchRejected ==
  [][\A k \in 1..Len(savedOutfits) :
       (/\ last'.op = "handleLoadOutfit" /\ last'.arg = k
        /\ ~isLoading
        /\ SavedBaseDiffers(k)) =>
         /\ UNCHANGED <<outfitHistory, heap, currentOutfitIndex, currentPoseIndex,
                        savedOutfits, crashed>>
         /\ error' = MismatchMsg]_vars

\* C10's case: the mismatch reported, the history still the one it was
C10_Witness ==
  /\ last.op = "handleLoadOutfit"
  /\ error = MismatchMsg
  /\ Len(savedOutfits) = 1
  /\ SavedBaseDiffers(1)

\* C11: while the session keeps its base model, a load of an outfit saved in
\* the session is never refused as made for a different model, whatever pose
\* and background operations came before or after the save.
C11_LoadAcceptedSameModel ==
  [][(last'.op = "handleLoadOutfit" /\ ~isLoading /\ modelImageUrl' = modelImageUrl)
       => error' # MismatchMsg]_vars

\* the program's state, the history variable left out
progVars == <<modelImageUrl, outfitHistory, heap, currentOutfitIndex, currentPoseIndex,
              isLoading, error, isOnline, wardrobe, savedOutfits, pending,
              userImageUrl, isGenerating, selectedGender, ssPending,
              ssError, generatedModelUrl, crashed, now,
              session, isSessionLoaded, sessionRead, savedStore>>

\* C12: a save asked with at most one active layer is rejected: the catalog
\* and every other part of the state stay as they were.
C12_SaveRejected ==
  [][(last'.op = "handleSaveOutfit" /\ Len(activeOutfitLayers) <= 1)
       => UNCHANGED progVars]_vars

\* C12's case: a save refused on the base layer alone, a layer beyond the cursor
C12_Witness ==
  /\ last.op = "handleSaveOutfit" /\ last.arg = 0
  /\ Len(outfitHistory) = 2 /\ currentOutfitIndex = 0
  /\ savedOutfits = <<>>

\* C13: the ids of the saved outfits in the catalog are pairwise distinct,
\* also after two saves at the same reading of the clock.
C13_FreshIds ==
  \A i, j \in 1..Len(savedOutfits) :
    i # j => savedOutfits[i].id # savedOutfits[j].id

\* C14: a pose call that fails leaves every layer and its pose images as they
\* were before the request and puts the pose cursor back where it was before
\* the request, so that after the failure the layer at the cursor holds an
\* image for the pose at the pose cursor, or the image shown is the one that
\* was shown before the request.
C14_PoseFailureRestores ==
  [][last'.op = "poseFailed" =>
       /\ Content(heap', outfitHistory') = last.snap.layers
       /\ currentPoseIndex' = last.arg
       /\ LET currentLayer == LayerAt(outfitHistory', currentOutfitIndex') IN
            \/ HasPose(heap'[currentLayer].poseImages, currentPoseIndex')
            \/ displayImageUrl' = last.snap.shown]_vars

\* C15: with a history that is not empty and the cursor on one of its layers,
\* the image shown is defined: it is the layer's image for the current pose
\* when the layer has one, and the image the layer got first otherwise.
C15_DisplayDefined ==
  (Len(outfitHistory) > 0 /\ currentOutfitIndex >= 0
                          /\ currentOutfitIndex < Len(outfitHistory)) =>
    LET images == heap[outfitHistory[currentOutfitIndex + 1]].poseImages IN
      /\ displayImageUrl # Null
      /\ Len(images) > 0
      /\ \A j \in 1..Len(images) :
           images[j][1] = currentPoseIndex => displayImageUrl = images[j][2]
      /\ (\A j \in 1..Len(images) : images[j][1] # currentPoseIndex)
           => displayImageUrl = images[1][2]

\* C15's case: a layer that got an image for the first pose and then another
\* image for the second, shown at the third
C15_Witness ==
  /\ Len(outfitHistory) = 2 /\ currentOutfitIndex = 1
  /\ currentPoseIndex = 2
  /\ LET images == heap[outfitHistory[2]].poseImages IN
       /\ Len(images) = 2
       /\ images[1][1] = 0 /\ images[2][1] = 1
       /\ images[1][2] # images[2][2]
       /\ displayImageUrl = images[1][2]

\* C16: a garment selected at cursor n while layer n+1 carries that garment
\* moves the cursor to n+1 and the pose cursor to 0, issues no call and leaves
\* the history, the layers, the wardrobe, the loading flag and the error slot
\* alone, offline as well as online; when layer n+1 is absent or carries
\* another garment, the selection moves no cursor and changes no layer.
C16_RedoShortcut ==
  [][(last'.op = "handleGarmentSelect" /\ displayImageUrl # Null /\ ~isLoading) =>
       LET n == currentOutfitIndex
           redo == /\ n + 2 <= Len(outfitHistory)
                   /\ heap[outfitHistory[n + 2]].garment = last'.arg
       IN /\ redo =>
               /\ currentOutfitIndex' = n + 1
               /\ currentPoseIndex' = 0
               /\ UNCHANGED <<outfitHistory, heap, wardrobe, isLoading, error,
                              pending, modelImageUrl, isOnline>>
          /\ ~redo =>
               UNCHANGED <<currentOutfitIndex, currentPoseIndex, outfitHistory,
                           heap, wardrobe>>]_vars

\* C16's case: offline, with two layers beyond the cursor, the next one selected
C16_Witness ==
  /\ last.op = "handleGarmentSelect" /\ last.snap.beyond = 2
  /\ ~isOnline
  /\ Len(outfitHistory) = 3 /\ currentOutfitIndex = 1
  /\ heap[outfitHistory[2]].garment = last.arg
  /\ pending = <<>> /\ ~isLoading /\ error = NoError

\* C17: a step that changes the active layer (a garment applied, a redo
\* advance, a remove, an outfit loaded) ends with the pose cursor on the
\* first pose.
C17_PoseResetOnLayerChange ==
  [][currentOutfitIndex' # currentOutfitIndex => currentPoseIndex' = 0]_vars

\* C18: a remove with the cursor above 0 moves the cursor down by one, puts
\* the pose cursor on the first pose and keeps the history, the layers beyond
\* the new cursor included; at cursor 0 it changes nothing at all.
C18_Retreat ==
  [][last'.op = "handleRemoveLastGarment" =>
       IF currentOutfitIndex > 0
         THEN /\ currentOutfitIndex' = currentOutfitIndex - 1
              /\ currentPoseIndex' = 0
              /\ UNCHANGED <<outfitHistory, heap>>
              /\ Len(outfitHistory') - (currentOutfitIndex' + 1) = last'.snap.beyond + 1
         ELSE UNCHANGED progVars]_vars

\* C18's case: the last of three layers removed, and still in the history
C18_Witness ==
  /\ last.op = "handleRemoveLastGarment" /\ last.snap.beyond = 0
  /\ Len(outfitHistory) = 3 /\ currentOutfitIndex = 1
  /\ currentPoseIndex = 0
  /\ heap[outfitHistory[3]].garment # Null

\* C19: the completion of a pending call, success or failure, is handled
\* inside the action in whatever state it arrives: no exception escapes, and
\* the step ends with isLoading false.
C19_CompletionHandled ==
  [][Len(pending') < Len(pending) => (~crashed' /\ ~isLoading')]_vars

\* C20: when the startup read adopts a stored session, the record the persist
\* effect derives from the state adopted is the record that was read; the
\* effect runs next, before any other step, and its write leaves the store
\* as it was.
C20_BootstrapIdempotent ==
  [][/\ (/\ last'.op = "loadSession" /\ isSessionLoaded'
          /\ session # <<>> /\ session[1].modelImageUrl # Null)
          => (SessionRecord' = session[1] /\ last'.arg = 1)
     /\ (/\ last.op = "loadSession" /\ last.arg = 1
          /\ session # <<>> /\ session[1].modelImageUrl # Null)
          => (last'.op = "effect" /\ session' = session)]_vars

\* C20's case: a stored session of two layers with the cursor on the first
\* has been adopted and the persist effect has written it back
C20_Witness ==
  /\ last.op = "effect"
  /\ session # <<>>
  /\ Len(session[1].outfitHistory) = 2 /\ session[1].currentOutfitIndex = 0
  /\ session[1].wardrobe = <<1, 2>>
  /\ Content(heap, outfitHistory) = session[1].outfitHistory
  /\ currentOutfitIndex = 0 /\ modelImageUrl = session[1].modelImageUrl
  /\ ssPending = <<>> /\ selectedGender = Null /\ modelImageUrl = 1

\* the four fields of the session hold their initial values
SessionDefaults ==
  /\ modelImageUrl = Null
  /\ outfitHistory = <<>>
  /\ wardrobe = defaultWardrobe
  /\ currentOutfitIndex = 0

\* the four fields of the session hold the values of the stored record
SessionAdopted ==
  /\ session # <<>>
  /\ modelImageUrl = session[1].modelImageUrl
  /\ Content(heap, outfitHistory) = session[1].outfitHistory
  /\ wardrobe = session[1].wardrobe
  /\ currentOutfitIndex = session[1].currentOutfitIndex

\* C21: when the startup read ends, isSessionLoaded is true and either the
\* store held a record with a model image, the read succeeded and all four
\* fields are the record's, or all four hold their defaults: a read that
\* fails, or finds nothing, ends with no model.
C21_BootstrapAllOrNothing ==
  [][last'.op \in {"loadSession", "loadSessionFailed"} =>
       /\ isSessionLoaded'
       /\ IF last'.op = "loadSession" /\ session # <<>> /\ session[1].modelImageUrl # Null
            THEN SessionAdopted'
            ELSE SessionDefaults']_vars

\* C22: the session record is written only once the startup read has ended
\* and only while a model exists, and what is written is the four fields as
\* they are then; after a step that changed one of the four fields with the
\* read ended and a model present, the next step is that write; the record is
\* removed by Start Over alone, and nothing is written before the read ends.
C22_PersistAfterLoad ==
  [][/\ session' # session =>
          \/ /\ last'.op = "effect"
             /\ isSessionLoaded /\ modelImageUrl # Null
             /\ session' = <<SessionRecord'>>
          \/ last'.op = "handleStartOver" /\ session' = <<>>
     /\ (last.arg = 1 /\ isSessionLoaded /\ modelImageUrl # Null) =>
          session' = <<SessionRecord>>
     /\ ~isSessionLoaded' => (session' = session \/ session' = <<>>)]_vars

\* C22's case: the write that follows a pose result on the base layer
C22_Witness ==
  /\ last.op = "effect" /\ isSessionLoaded
  /\ session = <<SessionRecord>>
  /\ Len(session[1].outfitHistory) = 1
  /\ Len(session[1].outfitHistory[1].poseImages) = 2

\* the layers a step creates: the base layer of a finalized model, the layer
\* a successful garment application appends (in a running application)
NewLayers ==
  IF last'.op = "handleModelFinalized" /\ modelImageUrl' # Null
    THEN {outfitHistory'[i] : i \in 1..Len(outfitHistory')}
  ELSE IF last'.op = "garmentDone" /\ ~crashed
    THEN {outfitHistory'[Len(outfitHistory')]}
    ELSE {}

\* C23: every layer of the history has at least one pose image; a layer that
\* a step creates has exactly one, under the pose current when the step ends;
\* and no step takes a pose key away from a layer that stays referenced.
C23_PoseEntries ==
  [][/\ \A i \in 1..Len(outfitHistory') :
          Len(heap'[outfitHistory'[i]].poseImages) >= 1
     /\ \A o \in NewLayers : PoseKeys(heap'[o].poseImages) = {currentPoseIndex'}
     /\ \A o \in (Referenced(outfitHistory, savedOutfits) \cap
                  Referenced(outfitHistory', savedOutfits')) \ NewLayers :
          PoseKeys(heap[o].poseImages) \subseteq PoseKeys(heap'[o].poseImages)]_vars

\* the ids of the garments of a wardrobe
WardrobeIds(w) == {w[i] : i \in 1..Len(w)}

\* C24: no two items of the wardrobe have the same id; a successful garment
\* application appends its garment if no item has its id and changes nothing
\* otherwise; Start Over puts the default wardrobe back; the startup read,
\* which puts the wardrobe of the record read in place, is the only other
\* step that changes the wardrobe (a failed application, a request turned
\* away, a remove, a pose change all leave it alone).
C24_WardrobeAppendOnly ==
  [][/\ Cardinality(WardrobeIds(wardrobe')) = Len(wardrobe')
     /\ last'.op = "garmentDone" =>
          wardrobe' = IF pending[1].arg \in WardrobeIds(wardrobe)
                        THEN wardrobe ELSE wardrobe \o <<pending[1].arg>>
     /\ last'.op = "handleStartOver" => wardrobe' = defaultWardrobe
     /\ last'.op = "loadSession" =>
          \/ wardrobe' = wardrobe
          \/ /\ ~crashed
             /\ \E found \in {sessionRead[1], session} :
                  found # <<>> /\ wardrobe' = found[1].wardrobe
     /\ last'.op \notin {"garmentDone", "handleStartOver", "loadSession"} =>
          wardrobe' = wardrobe]_vars

\* C24's case: a garment the wardrobe did not have has been applied, and one
\* call more, for a garment the wardrobe has, is in flight
C24_Witness ==
  /\ last.op = "handleGarmentSelect"
  /\ wardrobe = <<1, 2>>
  /\ Len(outfitHistory) = 2 /\ heap[outfitHistory[2]].garment = 2
  /\ currentOutfitIndex = 0
  /\ Len(pending) = 1 /\ pending[1].kind = "garment" /\ pending[1].arg = 1

\* C25: a save asked with an image shown and more than one active layer puts
\* one record in front of the catalog as it was; its layers are the layers of
\* the history up to the cursor, its preview is the image shown; the history,
\* its layers and both cursors stay as they were.
C25_SavePrepends ==
  [][(/\ last'.op = "handleSaveOutfit"
      /\ displayImageUrl # Null
      /\ Len(activeOutfitLayers) > 1) =>
       /\ Len(savedOutfits') = Len(savedOutfits) + 1
       /\ Tail(savedOutfits') = savedOutfits
       /\ Len(Head(savedOutfits').layers) = currentOutfitIndex + 1
       /\ \A i \in 1..(currentOutfitIndex + 1) :
            heap'[Head(savedOutfits').layers[i]] = heap[outfitHistory[i]]
       /\ Head(savedOutfits').previewImageUrl = displayImageUrl
       /\ Content(heap', outfitHistory') = Content(heap, outfitHistory)
       /\ UNCHANGED <<outfitHistory, currentOutfitIndex, currentPoseIndex>>]_vars

\* C25's case: a second outfit saved, of two layers with one layer beyond the
\* cursor, in front of an outfit of three
C25_Witness ==
  /\ last.op = "handleSaveOutfit"
  /\ Len(savedOutfits) = 2
  /\ Len(savedOutfits[1].layers) = 2 /\ Len(savedOutfits[2].layers) = 3
  /\ Len(outfitHistory) = 3 /\ currentOutfitIndex = 1
  /\ savedOutfits[1].previewImageUrl = 2 /\ savedOutfits[2].previewImageUrl = 1
  /\ modelImageUrl = 1

\* r is s with some places dropped, the others in their order
IsSubsequence(r, s) ==
  \E f \in [1..Len(r) -> 1..Len(s)] :
    /\ \A k \in 1..Len(r) : r[k] = s[f[k]]
    /\ \A j, k \in 1..Len(r) : j < k => f[j] < f[k]

\* C26: a delete leaves a catalog without any outfit of the id, holding the
\* other outfits in their order; with no outfit of the id in the catalog it
\* changes nothing, and so does a delete of the same id repeated at once; the
\* history, its layers and both cursors stay as they were.
C26_DeleteFilters ==
  [][last'.op = "handleDeleteOutfit" =>
       /\ WithId(savedOutfits', last'.arg) = {}
       /\ Len(savedOutfits') = Len(savedOutfits) - Cardinality(WithId(savedOutfits, last'.arg))
       /\ IsSubsequence(savedOutfits', savedOutfits)
       /\ WithId(savedOutfits, last'.arg) = {} => savedOutfits' = savedOutfits
       /\ (last.op = "handleDeleteOutfit" /\ last.arg = last'.arg) =>
            savedOutfits' = savedOutfits
       /\ Content(heap', outfitHistory') = Content(heap, outfitHistory)
       /\ UNCHANGED <<outfitHistory, currentOutfitIndex, currentPoseIndex>>]_vars

\* C26's case: a delete has taken two outfits of one id out of the catalog
C26_Witness ==
  /\ last.op = "handleDeleteOutfit"
  /\ last.snap.had = 2
  /\ savedOutfits = <<>>
  /\ Len(outfitHistory) = 3

\* the answer carries a prompt block reason
Blocked(r) == r.blockReason # Undefined

\* some part of some candidate of the answer is an image
HasImage(r) ==
  \E c \in 1..Len(r.candidates) :
    \E p \in 1..Len(r.candidates[c].parts) : r.candidates[c].parts[p].inlineData # Null

\* C27: handleApiResponse throws the 'Request was blocked' message for every
\* answer with a prompt block reason, an image among its parts or not; it
\* throws another message for an answer without block reason and without
\* image; it returns an image reference only for an answer without block
\* reason that has an image part.
C27_BlockedBeforeImage ==
  apiResult # NotCalled =>
    /\ Blocked(response) =>
         apiResult.threw /\ apiResult.value[1] = "Request was blocked. Reason: "
    /\ (~Blocked(response) /\ ~HasImage(response)) =>
         apiResult.threw /\ apiResult.value[1] # "Request was blocked. Reason: "
    /\ ~apiResult.threw => (~Blocked(response) /\ HasImage(response))

\* C27's case: a blocked answer that has an image part was refused
C27_Witness ==
  /\ apiResult # NotCalled
  /\ Blocked(response) /\ HasImage(response)
  /\ apiResult.threw

\* C28: the request of a garment application and its failure each leave the
\* history, its layers, both cursors and the wardrobe as they were, and the
\* failure ends with a message in the error slot and isLoading false; a
\* completion that appended a layer ends with the error slot empty, and a
\* completion that appended none ends with a message in it.  Completions
\* are those that arrive in a running application.
C28_GarmentFailureFrame ==
  [][/\ (\/ last'.op = "garmentFailed"
         \/ last'.op = "handleGarmentSelect" /\ Len(pending') > Len(pending)) =>
          /\ UNCHANGED <<outfitHistory, currentOutfitIndex, currentPoseIndex, wardrobe>>
          /\ Content(heap', outfitHistory') = Content(heap, outfitHistory)
     /\ (last'.op = "garmentFailed" /\ ~crashed) => (error' # NoError /\ ~isLoading')
     /\ (last'.op = "garmentDone" /\ ~crashed) => (NewLayers # {} /\ error' = NoError)]_vars

\* C29: a background change that succeeds puts its image under the pose of
\* the request in the layer at the cursor of the request, and leaves every
\* other pose image of every layer, the garments, the history, both cursors
\* and the wardrobe as they were; one that fails leaves the history and every
\* layer as they were and puts a message in the error slot.  Completions
\* are those that arrive in a running application.
C29_BackgroundFrame ==
  [][/\ (last'.op = "backgroundDone" /\ ~crashed) =>
          LET c == pending[last'.arg[1]] IN
          /\ c.idx < Len(outfitHistory)
          /\ GetPose(heap'[outfitHistory[c.idx + 1]].poseImages, c.pose) = last'.arg[2]
          /\ \A j \in 1..Len(outfitHistory) :
               /\ heap'[outfitHistory[j]].garment = heap[outfitHistory[j]].garment
               /\ \A p \in Poses :
                    (j # c.idx + 1 \/ p # c.pose) =>
                      GetPose(heap'[outfitHistory[j]].poseImages, p) =
                      GetPose(heap[outfitHistory[j]].poseImages, p)
          /\ UNCHANGED <<outfitHistory, currentOutfitIndex, currentPoseIndex, wardrobe>>
     /\ (last'.op = "backgroundFailed" /\ ~crashed) =>
          /\ UNCHANGED outfitHistory
          /\ Content(heap', outfitHistory') = Content(heap, outfitHistory)
          /\ error' # NoError]_vars

\* the layer at the cursor has an image under the pose
Cached(n) ==
  LET pi == heap[outfitHistory[currentOutfitIndex + 1]].poseImages
  IN  \E j \in 1..Len(pi) : pi[j][1] = n

\* C30: with no call in progress, a pose selected that the layer at the cursor
\* has an image for moves the pose cursor and nothing else, online or
\* offline, and issues no call; the pose at the cursor selected again changes
\* nothing; and a pose call is put in flight only by a pose select for a pose
\* the layer at the cursor has no image for.
C30_LazyPoses ==
  [][/\ (last'.op = "handlePoseSelect" /\ ~isLoading) =>
          LET n == last'.arg[1] IN
          /\ n = currentPoseIndex => UNCHANGED progVars
          /\ (n # currentPoseIndex /\ Cached(n)) =>
               /\ currentPoseIndex' = n
               /\ UNCHANGED <<pending, outfitHistory, heap, currentOutfitIndex,
                              isLoading, error, wardrobe, modelImageUrl, isOnline>>
     /\ Len(pending') > Len(pending) /\ pending'[Len(pending')].kind = "pose" =>
          /\ last'.op = "handlePoseSelect"
          /\ pending'[Len(pending')].arg = last'.arg[1]
          /\ ~Cached(last'.arg[1])
          /\ last'.arg[1] # currentPoseIndex]_vars

\* C30's case: offline, on a garment layer, the pose cursor has just moved to
\* another pose the layer has an image for
C30_Witness ==
  /\ last.op = "handlePoseSelect"
  /\ last.arg[1] # last.arg[2] /\ currentPoseIndex = last.arg[1]
  /\ ~isOnline
  /\ currentOutfitIndex = 1
  /\ pending = <<>> /\ ~isLoading /\ error = NoError

\* no effect is due, no call is in flight, and the mount effects have run
Quiescent == last.op # "init" /\ NoEffectDue /\ pending = <<>>

\* C31: in every quiescent state after startup the saved-outfits store holds
\* the catalog in memory: the same outfits in the same order, with the same
\* layers and pose images.
C31_StoreMatchesCatalog ==
  Quiescent => savedStore = StoreOf(Stringify(savedOutfits, heap))

\* the ids of the outfits of the catalog, in order
CatalogIds == [k \in 1..Len(savedOutfits) |-> savedOutfits[k].id]

\* C32: Start Over leaves no model, an empty history, both cursors at 0, no
\* error, isLoading false and the default wardrobe, and removes the session
\* record, which the effects after it do not write again; the catalog, its
\* outfits and the saved-outfits store stay as they were.  The outfits that
\* make up the catalog change only by a save, a delete, or the load at mount.
C32_StartOverFrame ==
  [][/\ last'.op = "handleStartOver" =>
          /\ modelImageUrl' = Null /\ outfitHistory' = <<>>
          /\ currentOutfitIndex' = 0 /\ currentPoseIndex' = 0
          /\ error' = NoError /\ ~isLoading'
          /\ wardrobe' = defaultWardrobe
          /\ session' = <<>>
          /\ Stringify(savedOutfits', heap') = Stringify(savedOutfits, heap)
          /\ UNCHANGED savedStore
     /\ (last.op = "handleStartOver" /\ last'.op = "effects") =>
          session' = <<>> /\ UNCHANGED savedStore
     /\ CatalogIds' # CatalogIds =>
          last'.op \in {"handleSaveOutfit", "handleDeleteOutfit", "mount"}]_vars

\* C32's case: Start Over pressed during a call, with an error shown, a
\* longer wardrobe and an outfit in the catalog and in its store
C32_Witness ==
  /\ last.op = "handleStartOver"
  /\ Len(savedOutfits) = 1 /\ Len(savedStore.list) = 1
  /\ Len(pending) = 1
  /\ session = <<>> /\ modelImageUrl = Null

\* the step before was a retreat that moved the cursor back, and this step
\* selects the garment of the layer just left
ReselectAfterRetreat ==
  /\ last.op = "handleRemoveLastGarment" /\ Beyond = last.snap.beyond + 1
  /\ last'.op = "handleGarmentSelect"
  /\ last'.arg = heap[outfitHistory[currentOutfitIndex + 2]].garment

\* C33: a retreat changes neither the history nor the calls in flight, and
\* selecting the garment of the layer just left right after it puts the
\* cursor back on that layer with the pose cursor at 0, the history and its
\* layers as they were and no call issued, online or offline.
C33_RetreatReselect ==
  [][/\ last'.op = "handleRemoveLastGarment" =>
          UNCHANGED <<outfitHistory, heap, pending>>
     /\ ReselectAfterRetreat =>
          /\ currentOutfitIndex' = currentOutfitIndex + 1
          /\ currentPoseIndex' = 0
          /\ UNCHANGED <<outfitHistory, heap, pending>>]_vars

C37_StartupKeepsCatalog ==
  (last.op = "mountEffects" /\ last.snap.kind = "list") =>
    /\ NoEffectDue
    /\ Stringify(savedOutfits, heap) = last.snap.list
    /\ savedStore = last.snap

\* C35: while there is no model (at the start and from Start Over until a
\* model is finalized) the history is empty, both cursors are 0, the wardrobe
\* is the default one and the error slot is empty, whatever completions of
\* calls issued before Start Over arrive in between.
C35_ResetStays ==
  modelImageUrl = Null =>
    /\ outfitHistory = <<>>
    /\ currentOutfitIndex = 0 /\ currentPoseIndex = 0
    /\ wardrobe = defaultWardrobe
    /\ error = NoError

\* C36: whenever no call is pending and the history is not empty, the layer
\* at the cursor holds an image under the pose at the pose cursor, so the
\* image shown is the one stored for that pose and not one of another pose.
C36_ShownIsStored ==
  (pending = <<>> /\ outfitHistory # <<>>) =>
    LET currentLayer == LayerAt(outfitHistory, currentOutfitIndex) IN
    /\ currentLayer # Null
    /\ HasPose(heap[currentLayer].poseImages, currentPoseIndex)

\* C38: whenever isLoading is true it is false again later with the
\* application still running, given that calls in flight settle.
C38_LoadingEnds == isLoading ~> (~isLoading /\ ~crashed)

====
